---- MODULE Spec2Model ----
(***************************************************************************)
(* cloud-rosetta: the mapping store's four lookups                         *)
(* (scripts/database_manager.py) and the plan translator                   *)
(* (scripts/translator.py).                                                *)
(*                                                                         *)
(* Numbers.  memory_gb is a REAL column whose seed values are multiples of *)
(* 0.5; a row carries it as memory_half_gb = 2 * memory_gb, an integer.    *)
(* Latitude and longitude are carried in thousandths of a degree.  The     *)
(* ORDER BY keys are scaled the same way (diff by 4, dist_sq by 10^6), so  *)
(* every comparison the SQL makes on the exact values is the comparison    *)
(* made here.                                                              *)
(*                                                                         *)
(* SQL.  A SELECT ... LIMIT 1 returns the first row of the ordering; rows  *)
(* that tie on every ORDER BY key (or all rows, when there is no ORDER     *)
(* BY) come in an order SQL leaves open, so a lookup is a set of possible  *)
(* outcomes and the action takes any of them.                              *)
(*                                                                         *)
(* database_manager.py logs through `logger`; the log calls have no part   *)
(* in what a lookup returns and are left out.                              *)
(***************************************************************************)
EXTENDS Integers, Sequences, FiniteSets, TLC

VARIABLES
    db,               \* the mapping store: instance_types, regions, resource_types, images
    call,             \* the lookup made last on the store (SpecStore)
    ret,              \* its outcome
    heap,             \* the plan documents, by reference
    self,             \* the translator: plan_data, translated_plan, source_provider, target_provider
    pc,               \* where translate is
    at,               \* entries of each list translate has rewritten
    exc,              \* the exception translate raised, None if none
    input,            \* the document the translator was constructed on
    cli               \* the command-line run (SpecMain): its arguments, position and effects

vars == <<db, call, ret, heap, self, pc, at, exc, input, cli>>

translator == <<heap, self, pc, at, exc, input>>

(***************************************************************************)
(* Outcomes of a call: a returned value (None for absent) or an exception. *)
(***************************************************************************)
None == "None"

NoRow == [norow |-> TRUE]

Return(v) == [tag |-> "return", val |-> v]

Raise(e) == [tag |-> "raise", val |-> e]

Abs(x) == IF x < 0 THEN -x ELSE x

(***************************************************************************)
(* Bounds of the store contents explored by SpecStore.                     *)
(***************************************************************************)
MaxVcpu == 3

MaxMemoryHalfGb == 3

MaxCoord == 1

\* Mutant: `return result[0]` without the `if result` guard.
FirstColumnUnguarded(rows, col) ==
    IF rows = {} THEN {Raise("TypeError")} ELSE {Return(r[col]) : r \in rows}

\* cursor.fetchone() followed by `result[0] if result else None`: the first
\* column of the row LIMIT 1 returned, None when no row matched.
FirstColumnOrNone(rows, col) ==
    IF rows = {} THEN {Return(None)} ELSE {Return(r[col]) : r \in rows}

(***************************************************************************)
(* find_equivalent_instance (database_manager.py 343-388).                 *)
(***************************************************************************)
SourceInstance(store, source_provider, source_type) ==
    {r \in store.instance_types :
        r.provider = source_provider /\ r.instance_type = source_type}

\* Mutant: the WHERE clause without `memory_gb <= ? * 2`.
InWindowNoMemoryCeiling(c, vcpu, memory_half_gb) ==
    /\ 2 * c.vcpu >= vcpu
    /\ c.vcpu <= 2 * vcpu
    /\ 2 * c.memory_half_gb >= memory_half_gb

\* WHERE vcpu >= ? * 0.5 AND vcpu <= ? * 2
\*   AND memory_gb >= ? * 0.5 AND memory_gb <= ? * 2
InWindow(c, vcpu, memory_half_gb) ==
    /\ 2 * c.vcpu >= vcpu
    /\ c.vcpu <= 2 * vcpu
    /\ 2 * c.memory_half_gb >= memory_half_gb
    /\ c.memory_half_gb <= 2 * memory_half_gb

\* 4 * (ABS(vcpu - ?) + ABS(memory_gb - ?) * 0.5)
Diff4(c, vcpu, memory_half_gb) ==
    4 * Abs(c.vcpu - vcpu) + Abs(c.memory_half_gb - memory_half_gb)

\* CASE WHEN family = ? THEN 0 ELSE 1 END
FamilyRank(c, family) == IF c.family = family THEN 0 ELSE 1

\* Mutant: ORDER BY diff alone.
InstanceBeforeByDiff(a, b, src) ==
    Diff4(a, src.vcpu, src.memory_half_gb) < Diff4(b, src.vcpu, src.memory_half_gb)

\* ORDER BY CASE WHEN family = ? THEN 0 ELSE 1 END, diff
InstanceBefore(a, b, src) ==
    \/ FamilyRank(a, src.family) < FamilyRank(b, src.family)
    \/ /\ FamilyRank(a, src.family) = FamilyRank(b, src.family)
       /\ Diff4(a, src.vcpu, src.memory_half_gb) < Diff4(b, src.vcpu, src.memory_half_gb)

InstanceCandidates(store, src, target_provider) ==
    {c \in store.instance_types :
        c.provider = target_provider /\ InWindow(c, src.vcpu, src.memory_half_gb)}

\* The rows LIMIT 1 may return: those no other candidate sorts before.
InstanceFirstRows(store, src, target_provider) ==
    LET cands == InstanceCandidates(store, src, target_provider)
    IN  {c \in cands : \A d \in cands : ~InstanceBefore(d, c, src)}

FindEquivalentInstance(store, source_provider, source_type, target_provider) ==
    LET source == SourceInstance(store, source_provider, source_type)
    IN  IF source = {}
        THEN {Return(None)}
        ELSE LET src == CHOOSE r \in source : TRUE
             IN  FirstColumnOrNone(InstanceFirstRows(store, src, target_provider),
                                   "instance_type")

(***************************************************************************)
(* find_nearest_region (database_manager.py 390-422).                      *)
(***************************************************************************)
SourceRegion(store, source_provider, source_region) ==
    {r \in store.regions :
        r.provider = source_provider /\ r.region_code = source_region}

\* x * x for x in thousandths of a degree, as <<h, l>> with x * x = 1000 * h + l
\* and 0 <= l < 10^6: the square itself does not fit TLC's 32-bit integers.
Square(x) ==
    LET q == Abs(x) \div 1000
        r == Abs(x) % 1000
    IN  <<1000 * q * q + 2 * q * r, r * r>>

\* (latitude - ?) * (latitude - ?) + (longitude - ?) * (longitude - ?),
\* as <<h, l>> with dist_sq = 1000 * h + l and 0 <= l < 1000
DistSq(c, lat, lon) ==
    LET a == Square(c.latitude - lat)
        b == Square(c.longitude - lon)
    IN  <<a[1] + b[1] + ((a[2] + b[2]) \div 1000), (a[2] + b[2]) % 1000>>

DistLess(d, e) == d[1] < e[1] \/ (d[1] = e[1] /\ d[2] < e[2])

\* CASE WHEN continent = ? THEN 0 ELSE 1 END
ContinentRank(c, continent) == IF c.continent = continent THEN 0 ELSE 1

\* Mutant: ORDER BY dist_sq alone.
RegionBeforeByDist(a, b, src) ==
    DistLess(DistSq(a, src.latitude, src.longitude),
             DistSq(b, src.latitude, src.longitude))

\* Mutant: ORDER BY the continent CASE alone.
RegionBeforeByContinent(a, b, src) ==
    ContinentRank(a, src.continent) < ContinentRank(b, src.continent)

\* ORDER BY CASE WHEN continent = ? THEN 0 ELSE 1 END, dist_sq
RegionBefore(a, b, src) ==
    \/ ContinentRank(a, src.continent) < ContinentRank(b, src.continent)
    \/ /\ ContinentRank(a, src.continent) = ContinentRank(b, src.continent)
       /\ DistLess(DistSq(a, src.latitude, src.longitude),
                   DistSq(b, src.latitude, src.longitude))

RegionCandidates(store, target_provider) ==
    {c \in store.regions : c.provider = target_provider}

RegionFirstRows(store, src, target_provider) ==
    LET cands == RegionCandidates(store, target_provider)
    IN  {c \in cands : \A d \in cands : ~RegionBefore(d, c, src)}

FindNearestRegion(store, source_provider, source_region, target_provider) ==
    LET source == SourceRegion(store, source_provider, source_region)
    IN  IF source = {}
        THEN {Return(None)}
        ELSE LET src == CHOOSE r \in source : TRUE
             IN  FirstColumnOrNone(RegionFirstRows(store, src, target_provider),
                                   "region_code")

(***************************************************************************)
(* map_resource_type (database_manager.py 424-449).  resource_types is a   *)
(* sequence in insertion order: a row's id is its position.                *)
(***************************************************************************)
ResourceTypeRows(store) ==
    {store.resource_types[i] : i \in DOMAIN store.resource_types}

\* SELECT resource_category FROM resource_types WHERE terraform_type = ?
SourceCategories(store, source_terraform_type) ==
    {r.resource_category : r \in
        {x \in ResourceTypeRows(store) : x.terraform_type = source_terraform_type}}

\* SELECT terraform_type ... WHERE provider = ? AND resource_category = ? LIMIT 1
TargetTypeRows(store, target_provider, category) ==
    {r \in ResourceTypeRows(store) :
        r.provider = target_provider /\ r.resource_category = category}

MapResourceType(store, source_terraform_type, target_provider) ==
    LET cats == SourceCategories(store, source_terraform_type)
    IN  IF cats = {}
        THEN {Return(None)}
        ELSE UNION {FirstColumnOrNone(TargetTypeRows(store, target_provider, category),
                                      "terraform_type") : category \in cats}

(***************************************************************************)
(* The image lookup inside translate_instance_values (translator.py        *)
(* 149-160): images i1 JOIN images i2 on os_family and os_version.         *)
(***************************************************************************)
\* a join on os_family alone: any version of the same family matches
ImageRowsByFamily(store, source_provider, image_name, target_provider) ==
    {i2 \in store.images :
        /\ i2.provider = target_provider
        /\ \E i1 \in store.images :
              /\ i1.provider = source_provider
              /\ i1.image_name = image_name
              /\ i1.os_family = i2.os_family}

ImageRows(store, source_provider, image_name, target_provider) ==
    {i2 \in store.images :
        /\ i2.provider = target_provider
        /\ \E i1 \in store.images :
              /\ i1.provider = source_provider
              /\ i1.image_name = image_name
              /\ i1.os_family = i2.os_family
              /\ i1.os_version = i2.os_version}

\* cursor.fetchone(): a row, or None
Fetchone(rows) == IF rows = {} THEN {NoRow} ELSE rows

\* result = fetchone(); if result: ... result[0]
FindImage(store, source_provider, image_name, target_provider) ==
    {IF result = NoRow THEN Return(None) ELSE Return(result.image_name) :
        result \in Fetchone(ImageRows(store, source_provider, image_name, target_provider))}

(***************************************************************************)
(* The store populate_initial_data builds (database_manager.py 120-330).   *)
(***************************************************************************)
SeedInstanceTypes ==
  {
    [provider |-> "ovh", instance_type |-> "d2-2", vcpu |-> 1, memory_half_gb |-> 4, family |-> "general"],
    [provider |-> "ovh", instance_type |-> "d2-4", vcpu |-> 2, memory_half_gb |-> 8, family |-> "general"],
    [provider |-> "ovh", instance_type |-> "d2-8", vcpu |-> 4, memory_half_gb |-> 16, family |-> "general"],
    [provider |-> "ovh", instance_type |-> "b2-7", vcpu |-> 2, memory_half_gb |-> 14, family |-> "general"],
    [provider |-> "ovh", instance_type |-> "b2-15", vcpu |-> 4, memory_half_gb |-> 30, family |-> "general"],
    [provider |-> "ovh", instance_type |-> "b2-30", vcpu |-> 8, memory_half_gb |-> 60, family |-> "general"],
    [provider |-> "ovh", instance_type |-> "b2-60", vcpu |-> 16, memory_half_gb |-> 120, family |-> "general"],
    [provider |-> "ovh", instance_type |-> "b2-120", vcpu |-> 32, memory_half_gb |-> 240, family |-> "general"],
    [provider |-> "ovh", instance_type |-> "c2-7", vcpu |-> 2, memory_half_gb |-> 14, family |-> "compute"],
    [provider |-> "ovh", instance_type |-> "c2-15", vcpu |-> 4, memory_half_gb |-> 30, family |-> "compute"],
    [provider |-> "ovh", instance_type |-> "c2-30", vcpu |-> 8, memory_half_gb |-> 60, family |-> "compute"],
    [provider |-> "ovh", instance_type |-> "c2-60", vcpu |-> 16, memory_half_gb |-> 120, family |-> "compute"],
    [provider |-> "ovh", instance_type |-> "r2-15", vcpu |-> 2, memory_half_gb |-> 30, family |-> "memory"],
    [provider |-> "ovh", instance_type |-> "r2-30", vcpu |-> 4, memory_half_gb |-> 60, family |-> "memory"],
    [provider |-> "ovh", instance_type |-> "r2-60", vcpu |-> 8, memory_half_gb |-> 120, family |-> "memory"],
    [provider |-> "ovh", instance_type |-> "r2-120", vcpu |-> 16, memory_half_gb |-> 240, family |-> "memory"],
    [provider |-> "aws", instance_type |-> "t3.nano", vcpu |-> 2, memory_half_gb |-> 1, family |-> "burstable"],
    [provider |-> "aws", instance_type |-> "t3.micro", vcpu |-> 2, memory_half_gb |-> 2, family |-> "burstable"],
    [provider |-> "aws", instance_type |-> "t3.small", vcpu |-> 2, memory_half_gb |-> 4, family |-> "burstable"],
    [provider |-> "aws", instance_type |-> "t3.medium", vcpu |-> 2, memory_half_gb |-> 8, family |-> "burstable"],
    [provider |-> "aws", instance_type |-> "t3.large", vcpu |-> 2, memory_half_gb |-> 16, family |-> "burstable"],
    [provider |-> "aws", instance_type |-> "m5.large", vcpu |-> 2, memory_half_gb |-> 16, family |-> "general"],
    [provider |-> "aws", instance_type |-> "m5.xlarge", vcpu |-> 4, memory_half_gb |-> 32, family |-> "general"],
    [provider |-> "aws", instance_type |-> "m5.2xlarge", vcpu |-> 8, memory_half_gb |-> 64, family |-> "general"],
    [provider |-> "aws", instance_type |-> "m5.4xlarge", vcpu |-> 16, memory_half_gb |-> 128, family |-> "general"],
    [provider |-> "aws", instance_type |-> "m5.8xlarge", vcpu |-> 32, memory_half_gb |-> 256, family |-> "general"],
    [provider |-> "aws", instance_type |-> "c5.large", vcpu |-> 2, memory_half_gb |-> 8, family |-> "compute"],
    [provider |-> "aws", instance_type |-> "c5.xlarge", vcpu |-> 4, memory_half_gb |-> 16, family |-> "compute"],
    [provider |-> "aws", instance_type |-> "c5.2xlarge", vcpu |-> 8, memory_half_gb |-> 32, family |-> "compute"],
    [provider |-> "aws", instance_type |-> "c5.4xlarge", vcpu |-> 16, memory_half_gb |-> 64, family |-> "compute"],
    [provider |-> "aws", instance_type |-> "r5.large", vcpu |-> 2, memory_half_gb |-> 32, family |-> "memory"],
    [provider |-> "aws", instance_type |-> "r5.xlarge", vcpu |-> 4, memory_half_gb |-> 64, family |-> "memory"],
    [provider |-> "aws", instance_type |-> "r5.2xlarge", vcpu |-> 8, memory_half_gb |-> 128, family |-> "memory"],
    [provider |-> "aws", instance_type |-> "r5.4xlarge", vcpu |-> 16, memory_half_gb |-> 256, family |-> "memory"],
    [provider |-> "hetzner", instance_type |-> "cx11", vcpu |-> 1, memory_half_gb |-> 4, family |-> "general"],
    [provider |-> "hetzner", instance_type |-> "cx21", vcpu |-> 2, memory_half_gb |-> 8, family |-> "general"],
    [provider |-> "hetzner", instance_type |-> "cx31", vcpu |-> 2, memory_half_gb |-> 16, family |-> "general"],
    [provider |-> "hetzner", instance_type |-> "cx41", vcpu |-> 4, memory_half_gb |-> 32, family |-> "general"],
    [provider |-> "hetzner", instance_type |-> "cx51", vcpu |-> 8, memory_half_gb |-> 64, family |-> "general"],
    [provider |-> "hetzner", instance_type |-> "cpx11", vcpu |-> 2, memory_half_gb |-> 4, family |-> "general"],
    [provider |-> "hetzner", instance_type |-> "cpx21", vcpu |-> 3, memory_half_gb |-> 8, family |-> "general"],
    [provider |-> "hetzner", instance_type |-> "cpx31", vcpu |-> 4, memory_half_gb |-> 16, family |-> "general"],
    [provider |-> "hetzner", instance_type |-> "cpx41", vcpu |-> 8, memory_half_gb |-> 32, family |-> "general"]
  }

SeedRegions ==
  {
    [provider |-> "ovh", region_code |-> "GRA9", continent |-> "Europe", latitude |-> 50987, longitude |-> 2762],
    [provider |-> "ovh", region_code |-> "GRA11", continent |-> "Europe", latitude |-> 50987, longitude |-> 2762],
    [provider |-> "ovh", region_code |-> "SBG5", continent |-> "Europe", latitude |-> 48573, longitude |-> 7752],
    [provider |-> "ovh", region_code |-> "RBX", continent |-> "Europe", latitude |-> 50694, longitude |-> 3174],
    [provider |-> "ovh", region_code |-> "DE1", continent |-> "Europe", latitude |-> 50110, longitude |-> 8682],
    [provider |-> "ovh", region_code |-> "UK1", continent |-> "Europe", latitude |-> 51507, longitude |-> -127],
    [provider |-> "ovh", region_code |-> "WAW1", continent |-> "Europe", latitude |-> 52229, longitude |-> 21012],
    [provider |-> "ovh", region_code |-> "BHS5", continent |-> "North America", latitude |-> 45315, longitude |-> -73874],
    [provider |-> "ovh", region_code |-> "SGP1", continent |-> "Asia", latitude |-> 1352, longitude |-> 103819],
    [provider |-> "ovh", region_code |-> "SYD1", continent |-> "Oceania", latitude |-> -33868, longitude |-> 151209],
    [provider |-> "aws", region_code |-> "us-east-1", continent |-> "North America", latitude |-> 38747, longitude |-> -77517],
    [provider |-> "aws", region_code |-> "us-west-2", continent |-> "North America", latitude |-> 45523, longitude |-> -122676],
    [provider |-> "aws", region_code |-> "eu-west-1", continent |-> "Europe", latitude |-> 53349, longitude |-> -6260],
    [provider |-> "aws", region_code |-> "eu-west-2", continent |-> "Europe", latitude |-> 51507, longitude |-> -127],
    [provider |-> "aws", region_code |-> "eu-west-3", continent |-> "Europe", latitude |-> 48856, longitude |-> 2352],
    [provider |-> "aws", region_code |-> "eu-central-1", continent |-> "Europe", latitude |-> 50110, longitude |-> 8682],
    [provider |-> "aws", region_code |-> "ap-southeast-1", continent |-> "Asia", latitude |-> 1352, longitude |-> 103819],
    [provider |-> "aws", region_code |-> "ap-southeast-2", continent |-> "Oceania", latitude |-> -33868, longitude |-> 151209],
    [provider |-> "aws", region_code |-> "ca-central-1", continent |-> "North America", latitude |-> 45501, longitude |-> -73567],
    [provider |-> "hetzner", region_code |-> "nbg1", continent |-> "Europe", latitude |-> 49452, longitude |-> 11077],
    [provider |-> "hetzner", region_code |-> "fsn1", continent |-> "Europe", latitude |-> 50478, longitude |-> 12337],
    [provider |-> "hetzner", region_code |-> "hel1", continent |-> "Europe", latitude |-> 60169, longitude |-> 24938],
    [provider |-> "hetzner", region_code |-> "ash", continent |-> "North America", latitude |-> 39043, longitude |-> -77487]
  }

SeedResourceTypes ==
  <<
    [provider |-> "ovh", resource_type |-> "compute", resource_category |-> "compute", terraform_type |-> "openstack_compute_instance_v2"],
    [provider |-> "ovh", resource_type |-> "keypair", resource_category |-> "compute", terraform_type |-> "openstack_compute_keypair_v2"],
    [provider |-> "ovh", resource_type |-> "volume", resource_category |-> "storage", terraform_type |-> "openstack_blockstorage_volume_v3"],
    [provider |-> "ovh", resource_type |-> "loadbalancer", resource_category |-> "network", terraform_type |-> "openstack_lb_loadbalancer_v2"],
    [provider |-> "ovh", resource_type |-> "floating_ip", resource_category |-> "network", terraform_type |-> "openstack_networking_floatingip_v2"],
    [provider |-> "ovh", resource_type |-> "network", resource_category |-> "network", terraform_type |-> "openstack_networking_network_v2"],
    [provider |-> "ovh", resource_type |-> "subnet", resource_category |-> "network", terraform_type |-> "openstack_networking_subnet_v2"],
    [provider |-> "ovh", resource_type |-> "security_group", resource_category |-> "network", terraform_type |-> "openstack_networking_secgroup_v2"],
    [provider |-> "ovh", resource_type |-> "object_storage", resource_category |-> "storage", terraform_type |-> "openstack_objectstorage_container_v1"],
    [provider |-> "aws", resource_type |-> "compute", resource_category |-> "compute", terraform_type |-> "aws_instance"],
    [provider |-> "aws", resource_type |-> "keypair", resource_category |-> "compute", terraform_type |-> "aws_key_pair"],
    [provider |-> "aws", resource_type |-> "volume", resource_category |-> "storage", terraform_type |-> "aws_ebs_volume"],
    [provider |-> "aws", resource_type |-> "loadbalancer", resource_category |-> "network", terraform_type |-> "aws_lb"],
    [provider |-> "aws", resource_type |-> "floating_ip", resource_category |-> "network", terraform_type |-> "aws_eip"],
    [provider |-> "aws", resource_type |-> "network", resource_category |-> "network", terraform_type |-> "aws_vpc"],
    [provider |-> "aws", resource_type |-> "subnet", resource_category |-> "network", terraform_type |-> "aws_subnet"],
    [provider |-> "aws", resource_type |-> "security_group", resource_category |-> "network", terraform_type |-> "aws_security_group"],
    [provider |-> "aws", resource_type |-> "object_storage", resource_category |-> "storage", terraform_type |-> "aws_s3_bucket"],
    [provider |-> "hetzner", resource_type |-> "compute", resource_category |-> "compute", terraform_type |-> "hcloud_server"],
    [provider |-> "hetzner", resource_type |-> "keypair", resource_category |-> "compute", terraform_type |-> "hcloud_ssh_key"],
    [provider |-> "hetzner", resource_type |-> "volume", resource_category |-> "storage", terraform_type |-> "hcloud_volume"],
    [provider |-> "hetzner", resource_type |-> "loadbalancer", resource_category |-> "network", terraform_type |-> "hcloud_load_balancer"],
    [provider |-> "hetzner", resource_type |-> "floating_ip", resource_category |-> "network", terraform_type |-> "hcloud_floating_ip"],
    [provider |-> "hetzner", resource_type |-> "network", resource_category |-> "network", terraform_type |-> "hcloud_network"],
    [provider |-> "hetzner", resource_type |-> "subnet", resource_category |-> "network", terraform_type |-> "hcloud_network_subnet"]
  >>

SeedImages ==
  {
    [provider |-> "ovh", image_name |-> "Ubuntu 24.04", os_family |-> "ubuntu", os_version |-> "24.04"],
    [provider |-> "ovh", image_name |-> "Ubuntu 22.04", os_family |-> "ubuntu", os_version |-> "22.04"],
    [provider |-> "ovh", image_name |-> "Ubuntu 20.04", os_family |-> "ubuntu", os_version |-> "20.04"],
    [provider |-> "ovh", image_name |-> "Debian 12", os_family |-> "debian", os_version |-> "12"],
    [provider |-> "ovh", image_name |-> "Debian 11", os_family |-> "debian", os_version |-> "11"],
    [provider |-> "ovh", image_name |-> "CentOS 8", os_family |-> "centos", os_version |-> "8"],
    [provider |-> "ovh", image_name |-> "Rocky Linux 8", os_family |-> "rocky", os_version |-> "8"],
    [provider |-> "ovh", image_name |-> "AlmaLinux 8", os_family |-> "almalinux", os_version |-> "8"],
    [provider |-> "aws", image_name |-> "ami-ubuntu-24.04", os_family |-> "ubuntu", os_version |-> "24.04"],
    [provider |-> "aws", image_name |-> "ami-ubuntu-22.04", os_family |-> "ubuntu", os_version |-> "22.04"],
    [provider |-> "aws", image_name |-> "ami-ubuntu-20.04", os_family |-> "ubuntu", os_version |-> "20.04"],
    [provider |-> "aws", image_name |-> "ami-debian-12", os_family |-> "debian", os_version |-> "12"],
    [provider |-> "aws", image_name |-> "ami-debian-11", os_family |-> "debian", os_version |-> "11"],
    [provider |-> "aws", image_name |-> "ami-centos-8", os_family |-> "centos", os_version |-> "8"],
    [provider |-> "hetzner", image_name |-> "ubuntu-24.04", os_family |-> "ubuntu", os_version |-> "24.04"],
    [provider |-> "hetzner", image_name |-> "ubuntu-22.04", os_family |-> "ubuntu", os_version |-> "22.04"],
    [provider |-> "hetzner", image_name |-> "ubuntu-20.04", os_family |-> "ubuntu", os_version |-> "20.04"],
    [provider |-> "hetzner", image_name |-> "debian-12", os_family |-> "debian", os_version |-> "12"],
    [provider |-> "hetzner", image_name |-> "debian-11", os_family |-> "debian", os_version |-> "11"],
    [provider |-> "hetzner", image_name |-> "centos-8", os_family |-> "centos", os_version |-> "8"],
    [provider |-> "hetzner", image_name |-> "rocky-8", os_family |-> "rocky", os_version |-> "8"],
    [provider |-> "hetzner", image_name |-> "almalinux-8", os_family |-> "almalinux", os_version |-> "8"]
  }

EmptyStore ==
    [instance_types |-> {}, regions |-> {}, resource_types |-> <<>>, images |-> {}]

SeedStore ==
    [instance_types |-> SeedInstanceTypes, regions |-> SeedRegions,
     resource_types |-> SeedResourceTypes, images |-> SeedImages]

(***************************************************************************)
(* Store contents explored by SpecStore: besides the empty store and the   *)
(* seeded one, every table that gives each of a few keys either no row or  *)
(* a row with any column values in the bounds.  Keys are what the schema's *)
(* UNIQUE constraints make unique.                                         *)
(***************************************************************************)
Absent == [absent |-> TRUE]

InstanceKeys ==
    {<<"aws", "t3.micro">>, <<"aws", "m5.large">>, <<"hetzner", "cx11">>}

InstanceColumns ==
    [vcpu : 1..MaxVcpu, memory_half_gb : 1..MaxMemoryHalfGb,
     family : {"general", "burstable"}]

InstanceTables ==
    {{[provider |-> k[1], instance_type |-> k[2], vcpu |-> f[k].vcpu,
       memory_half_gb |-> f[k].memory_half_gb, family |-> f[k].family] :
         k \in {x \in InstanceKeys : f[x] # Absent}} :
       f \in [InstanceKeys -> InstanceColumns \cup {Absent}]}

RegionKeys ==
    {<<"aws", "eu-west-2">>, <<"ovh", "UK1">>, <<"ovh", "GRA9">>}

RegionColumns ==
    [continent : {"Europe", "North America"},
     latitude : 0..MaxCoord, longitude : 0..MaxCoord]

RegionTables ==
    {{[provider |-> k[1], region_code |-> k[2], continent |-> f[k].continent,
       latitude |-> f[k].latitude, longitude |-> f[k].longitude] :
         k \in {x \in RegionKeys : f[x] # Absent}} :
       f \in [RegionKeys -> RegionColumns \cup {Absent}]}

ResourceTypePool ==
    [provider : {"aws"}, resource_type : {"r"},
     resource_category : {"compute", "network"},
     terraform_type : {"aws_instance", "aws_key_pair"}]
    \cup
    [provider : {"hetzner"}, resource_type : {"r"},
     resource_category : {"compute", "network"},
     terraform_type : {"hcloud_server"}]

\* UNIQUE(provider, terraform_type)
UniqueTypes(rows) ==
    \A i, j \in DOMAIN rows :
        (rows[i].provider = rows[j].provider
         /\ rows[i].terraform_type = rows[j].terraform_type) => i = j

MaxTypeRows == 3

ResourceTypeTables ==
    {rows \in UNION {[1..n -> ResourceTypePool] : n \in 0..MaxTypeRows} :
        UniqueTypes(rows)}

ImageKeys ==
    {<<"ovh", "Ubuntu 22.04">>, <<"aws", "ami-ubuntu-22.04">>, <<"aws", "ami-debian-12">>}

ImageColumns == [os_family : {"ubuntu", "debian"}, os_version : {"22.04", "12"}]

ImageTables ==
    {{[provider |-> k[1], image_name |-> k[2], os_family |-> f[k].os_family,
       os_version |-> f[k].os_version] :
         k \in {x \in ImageKeys : f[x] # Absent}} :
       f \in [ImageKeys -> ImageColumns \cup {Absent}]}

StoreContents ==
    {SeedStore}
    \cup {[EmptyStore EXCEPT !.instance_types = t] : t \in InstanceTables}
    \cup {[EmptyStore EXCEPT !.regions = t] : t \in RegionTables}
    \cup {[EmptyStore EXCEPT !.resource_types = t] : t \in ResourceTypeTables}
    \cup {[EmptyStore EXCEPT !.images = t] : t \in ImageTables}

(***************************************************************************)
(* Strings.  A string is an atom here, so the string tests the translator  *)
(* makes (startswith, endswith, `in`, slicing, f-strings) are tabulated    *)
(* over the strings that occur; each table is the Python expression        *)
(* evaluated on those strings.                                             *)
(***************************************************************************)
NativeTypes ==
    {"openstack_compute_instance_v2", "openstack_compute_keypair_v2",
     "openstack_blockstorage_volume_v3", "openstack_lb_loadbalancer_v2",
     "openstack_networking_floatingip_v2", "openstack_networking_network_v2",
     "openstack_networking_subnet_v2", "openstack_networking_secgroup_v2",
     "openstack_objectstorage_container_v1", "aws_instance", "aws_key_pair",
     "aws_ebs_volume", "aws_lb", "aws_eip", "aws_vpc", "aws_subnet",
     "aws_security_group", "aws_s3_bucket", "hcloud_server",
     "hcloud_ssh_key", "hcloud_volume", "hcloud_load_balancer",
     "hcloud_floating_ip", "hcloud_network", "hcloud_network_subnet",
     "null_resource", "azurerm_virtual_machine", "google_compute_instance"}

\* t.startswith(prefix)
StartsWith(t, prefix) ==
    t \in CASE prefix = "openstack_" ->
                {"openstack_compute_instance_v2",
                 "openstack_compute_keypair_v2",
                 "openstack_blockstorage_volume_v3",
                 "openstack_lb_loadbalancer_v2",
                 "openstack_networking_floatingip_v2",
                 "openstack_networking_network_v2",
                 "openstack_networking_subnet_v2",
                 "openstack_networking_secgroup_v2",
                 "openstack_objectstorage_container_v1"}
           [] prefix = "aws_" ->
                {"aws_instance", "aws_key_pair", "aws_ebs_volume", "aws_lb",
                 "aws_eip", "aws_vpc", "aws_subnet", "aws_security_group",
                 "aws_s3_bucket"}
           [] prefix = "hcloud_" ->
                {"hcloud_server", "hcloud_ssh_key", "hcloud_volume",
                 "hcloud_load_balancer", "hcloud_floating_ip",
                 "hcloud_network", "hcloud_network_subnet"}
           [] prefix = "azurerm_" ->
                {"azurerm_virtual_machine"}
           [] prefix = "google_" ->
                {"google_compute_instance"}

\* word in t
Contains(t, word) ==
    t \in CASE word = "compute" ->
                {"openstack_compute_instance_v2",
                 "openstack_compute_keypair_v2", "google_compute_instance"}
           [] word = "instance" ->
                {"openstack_compute_instance_v2", "aws_instance",
                 "google_compute_instance"}
           [] word = "server" ->
                {"hcloud_server"}

\* s.endswith(('a', 'b', 'c', 'd')), for s a region code or an availability zone
EndsWithZoneLetter(s) ==
    s \in
        {"us-east-1a", "us-east-1b", "us-east-1c", "us-east-1d",
         "us-west-2a", "us-west-2b", "us-west-2c", "us-west-2d",
         "eu-west-1a", "eu-west-1b", "eu-west-1c", "eu-west-1d",
         "eu-west-2a", "eu-west-2b", "eu-west-2c", "eu-west-2d",
         "eu-west-3a", "eu-west-3b", "eu-west-3c", "eu-west-3d",
         "eu-central-1a", "eu-central-1b", "eu-central-1c", "eu-central-1d",
         "ap-southeast-1a", "ap-southeast-1b", "ap-southeast-1c",
         "ap-southeast-1d", "ap-southeast-2a", "ap-southeast-2b",
         "ap-southeast-2c", "ap-southeast-2d", "ca-central-1a",
         "ca-central-1b", "ca-central-1c", "ca-central-1d"}

\* s[:-1]
DropLast(s) ==
    CASE s \in {"us-east-1a", "us-east-1b", "us-east-1c", "us-east-1d"}
           -> "us-east-1"
      [] s \in {"us-west-2a", "us-west-2b", "us-west-2c", "us-west-2d"}
           -> "us-west-2"
      [] s \in {"eu-west-1a", "eu-west-1b", "eu-west-1c", "eu-west-1d"}
           -> "eu-west-1"
      [] s \in {"eu-west-2a", "eu-west-2b", "eu-west-2c", "eu-west-2d"}
           -> "eu-west-2"
      [] s \in {"eu-west-3a", "eu-west-3b", "eu-west-3c", "eu-west-3d"}
           -> "eu-west-3"
      [] s \in {"eu-central-1a", "eu-central-1b", "eu-central-1c", "eu-central-1d"}
           -> "eu-central-1"
      [] s \in {"ap-southeast-1a", "ap-southeast-1b", "ap-southeast-1c", "ap-southeast-1d"}
           -> "ap-southeast-1"
      [] s \in {"ap-southeast-2a", "ap-southeast-2b", "ap-southeast-2c", "ap-southeast-2d"}
           -> "ap-southeast-2"
      [] s \in {"ca-central-1a", "ca-central-1b", "ca-central-1c", "ca-central-1d"}
           -> "ca-central-1"

\* a region code written where an availability zone is due
RegionAsZone(target_region) == target_region

\* f"{target_region}a"
WithZoneA(target_region) ==
    CASE target_region = "us-east-1" -> "us-east-1a"
      [] target_region = "us-west-2" -> "us-west-2a"
      [] target_region = "eu-west-1" -> "eu-west-1a"
      [] target_region = "eu-west-2" -> "eu-west-2a"
      [] target_region = "eu-west-3" -> "eu-west-3a"
      [] target_region = "eu-central-1" -> "eu-central-1a"
      [] target_region = "ap-southeast-1" -> "ap-southeast-1a"
      [] target_region = "ap-southeast-2" -> "ap-southeast-2a"
      [] target_region = "ca-central-1" -> "ca-central-1a"

\* word in provider.lower()
ProviderContains(provider, word) ==
    provider = CASE word = "openstack" ->
                      "registry.terraform.io/terraform-provider-openstack/openstack"
                 [] word = "aws" ->
                      "registry.terraform.io/hashicorp/aws"
                 [] word = "hcloud" ->
                      "registry.terraform.io/hetznercloud/hcloud"

(***************************************************************************)
(* Plan documents.  A JSON object is a function from its keys: `k in d` is *)
(* k \in DOMAIN d, d[k] = v is Put, d.pop(k, None) is Pop.  A JSON array   *)
(* is a sequence and JSON null is Null.                                    *)
(***************************************************************************)
Null == [null |-> TRUE]

EmptyDict == [k \in {} |-> k]

Has(d, k) == k \in DOMAIN d

Put(d, k, v) == [x \in DOMAIN d \cup {k} |-> IF x = k THEN v ELSE d[x]]

Pop(d, ks) == [x \in DOMAIN d \ ks |-> d[x]]

\* a test that lets None through
TruthyAny(s) == TRUE

\* `if s:` on a lookup's result, a string or None
Truthy(s) == s \notin {None, ""}

\* the values a lookup can return
Returned(outcomes) == {o.val : o \in {x \in outcomes : x.tag = "return"}}

(***************************************************************************)
(* detect_source_provider (translator.py 43-75).                           *)
(***************************************************************************)
\* the first entry whose type starts with a known prefix decides
DetectFromChanges(changes) ==
    LET Known(t) == \E p \in {"openstack_", "aws_", "hcloud_", "azurerm_", "google_"} :
                        StartsWith(t, p)
        hits == {n \in DOMAIN changes : Known(changes[n]["type"])}
    IN  IF hits = {}
        THEN "unknown"
        ELSE LET first == CHOOSE n \in hits : \A m \in hits : n <= m
                 t == changes[first]["type"]
             IN  IF StartsWith(t, "openstack_") THEN "ovh"
                 ELSE IF StartsWith(t, "aws_") THEN "aws"
                 ELSE IF StartsWith(t, "hcloud_") THEN "hetzner"
                 ELSE IF StartsWith(t, "azurerm_") THEN "azure"
                 ELSE "gcp"

DetectFromConfig(plan) ==
    IF Has(plan, "configuration") /\ Has(plan["configuration"], "provider_config")
    THEN LET providers == plan["configuration"]["provider_config"]
         IN  IF Has(providers, "openstack") \/ Has(providers, "openstack.ovh") THEN "ovh"
             ELSE IF Has(providers, "aws") THEN "aws"
             ELSE IF Has(providers, "hcloud") THEN "hetzner"
             ELSE IF Has(providers, "azurerm") THEN "azure"
             ELSE IF Has(providers, "google") THEN "gcp"
             ELSE None
    ELSE None

DetectSourceProvider(plan) ==
    IF DetectFromConfig(plan) # None
    THEN DetectFromConfig(plan)
    ELSE IF Has(plan, "resource_changes")
         THEN DetectFromChanges(plan["resource_changes"])
         ELSE "unknown"

(***************************************************************************)
(* translate_instance_values (translator.py 77-196).  The four groups of   *)
(* fields it writes have disjoint keys, so the map it returns is their     *)
(* union.  The lookups leave ties open, so it has a set of outcomes.       *)
(***************************************************************************)
\* lines 83-118
InstanceFields(store, source_provider, target_provider, values) ==
    LET field == IF Has(values, "flavor_name") THEN "flavor_name"
                 ELSE IF Has(values, "instance_type") THEN "instance_type"
                 ELSE IF Has(values, "server_type") THEN "server_type"
                 ELSE None
        written ==
            CASE field = "flavor_name" ->
                    IF target_provider = "aws" THEN "instance_type"
                    ELSE IF target_provider = "hetzner" THEN "server_type"
                    ELSE None
              [] field = "instance_type" ->
                    IF target_provider = "ovh" THEN "flavor_name"
                    ELSE IF target_provider = "hetzner" THEN "server_type"
                    ELSE None
              [] field = "server_type" ->
                    IF target_provider = "aws" THEN "instance_type"
                    ELSE IF target_provider = "ovh" THEN "flavor_name"
                    ELSE None
              [] OTHER -> None
    IN  IF field = None
        THEN {EmptyDict}
        ELSE {IF Truthy(mapped_type) /\ written # None
              THEN Put(EmptyDict, written, mapped_type)
              ELSE EmptyDict :
                 mapped_type \in Returned(FindEquivalentInstance(
                     store, source_provider, values[field], target_provider))}

\* lines 121-146
RegionFields(store, source_provider, target_provider, values) ==
    LET region_field == IF Has(values, "region") THEN "region"
                        ELSE IF Has(values, "location") THEN "location"
                        ELSE IF Has(values, "availability_zone") THEN "availability_zone"
                        ELSE None
    IN  IF region_field = None
        THEN {EmptyDict}
        ELSE LET given == values[region_field]
                 source_region ==
                     IF source_provider = "aws" /\ EndsWithZoneLetter(given)
                     THEN DropLast(given)
                     ELSE given
             IN  {IF ~Truthy(target_region) THEN EmptyDict
                  ELSE IF target_provider = "aws"
                       THEN Put(EmptyDict, "availability_zone", WithZoneA(target_region))
                  ELSE IF target_provider = "hetzner"
                       THEN Put(EmptyDict, "location", target_region)
                  ELSE Put(EmptyDict, "region", target_region) :
                     target_region \in Returned(FindNearestRegion(
                         store, source_provider, source_region, target_provider))}

\* lines 149-169
ImageFields(store, source_provider, target_provider, values) ==
    IF ~Has(values, "image_name")
    THEN {EmptyDict}
    ELSE {IF ~Truthy(result) THEN EmptyDict
          ELSE IF target_provider = "aws" THEN Put(EmptyDict, "ami", result)
          ELSE IF target_provider = "hetzner" THEN Put(EmptyDict, "image", result)
          ELSE Put(EmptyDict, "image_name", result) :
             result \in Returned(FindImage(
                 store, source_provider, values["image_name"], target_provider))}

\* lines 172-194
DirectFields(target_provider, values) ==
    LET name == IF ~Has(values, "name") THEN EmptyDict
                ELSE IF target_provider = "aws"
                     THEN Put(EmptyDict, "tags", [Name |-> values["name"]])
                     ELSE Put(EmptyDict, "name", values["name"])
        key_pair == IF ~Has(values, "key_pair") THEN EmptyDict
                    ELSE IF target_provider = "aws"
                         THEN Put(EmptyDict, "key_name", values["key_pair"])
                    ELSE IF target_provider = "hetzner"
                         THEN Put(EmptyDict, "ssh_keys", <<values["key_pair"]>>)
                    ELSE EmptyDict
        user_data == IF Has(values, "user_data")
                     THEN Put(EmptyDict, "user_data", values["user_data"])
                     ELSE EmptyDict
        network == IF /\ Has(values, "network")
                      /\ Len(values["network"]) > 0
                      /\ target_provider = "aws"
                   THEN Put(EmptyDict, "associate_public_ip_address", TRUE)
                   ELSE EmptyDict
        security_groups ==
                   IF Has(values, "security_groups") /\ target_provider = "aws"
                   THEN Put(EmptyDict, "vpc_security_group_ids", values["security_groups"])
                   ELSE EmptyDict
    IN  name @@ key_pair @@ user_data @@ network @@ security_groups

\* the rules applied to the source map itself: what no rule covers stays
TranslateInstanceValuesInPlace(store, source_provider, target_provider, values) ==
    IF values = Null
    THEN {Raise("TypeError")}
    ELSE {Return(a @@ b @@ c @@ DirectFields(target_provider, values) @@ values) :
             a \in InstanceFields(store, source_provider, target_provider, values),
             b \in RegionFields(store, source_provider, target_provider, values),
             c \in ImageFields(store, source_provider, target_provider, values)}

\* `"flavor_name" in values` raises TypeError when values is None
TranslateInstanceValues(store, source_provider, target_provider, values) ==
    IF values = Null
    THEN {Raise("TypeError")}
    ELSE {Return(a @@ b @@ c @@ DirectFields(target_provider, values)) :
             a \in InstanceFields(store, source_provider, target_provider, values),
             b \in RegionFields(store, source_provider, target_provider, values),
             c \in ImageFields(store, source_provider, target_provider, values)}

(***************************************************************************)
(* translate_provider_name (translator.py 198-215).                        *)
(***************************************************************************)
ProviderMap ==
    [ovh     |-> "registry.terraform.io/hashicorp/aws",
     aws     |-> "registry.terraform.io/hashicorp/aws",
     hetzner |-> "registry.terraform.io/hetznercloud/hcloud",
     azure   |-> "registry.terraform.io/hashicorp/azurerm",
     gcp     |-> "registry.terraform.io/hashicorp/google"]

TranslateProviderName(provider, target_provider) ==
    IF \E word \in {"openstack", "aws", "hcloud"} : ProviderContains(provider, word)
    THEN IF target_provider \in DOMAIN ProviderMap
         THEN ProviderMap[target_provider]
         ELSE provider
    ELSE provider

(***************************************************************************)
(* cleanup_values (translator.py 286-316).                                 *)
(***************************************************************************)
FieldsToRemove(source_provider) ==
    CASE source_provider = "ovh" ->
            {"flavor_name", "image_name", "region", "network", "metadata",
             "power_state", "admin_pass", "personality", "vendor_options",
             "scheduler_hints", "network_mode", "config_drive",
             "availability_zone_hints", "block_device", "force_delete",
             "stop_before_destroy"}
      [] source_provider = "aws" ->
            {"instance_type", "ami", "availability_zone", "tags", "key_name",
             "associate_public_ip_address", "vpc_security_group_ids"}
      [] source_provider = "hetzner" ->
            {"server_type", "image", "location", "ssh_keys", "datacenter",
             "firewall_ids", "placement_group_id"}
      [] OTHER -> {}

\* no cleanup: the value map is left as it is
NoCleanup(source_provider, values) == values

\* `if not values: return` covers None and the empty map
CleanupValues(source_provider, values) ==
    IF values = Null \/ DOMAIN values = {}
    THEN values
    ELSE Pop(values, FieldsToRemove(source_provider))

(***************************************************************************)
(* update_provider_config (translator.py 318-381).                         *)
(***************************************************************************)
ConstantValue(v) == [constant_value |-> v]

TargetProviderConfig(target_provider) ==
    CASE target_provider = "aws" ->
            [aws |-> [name |-> "aws",
                      full_name |-> "registry.terraform.io/hashicorp/aws",
                      version_constraint |-> "~> 5.0",
                      expressions |-> [region |-> ConstantValue("us-east-1")]]]
      [] target_provider = "hetzner" ->
            [hcloud |-> [name |-> "hcloud",
                         full_name |-> "registry.terraform.io/hetznercloud/hcloud",
                         version_constraint |-> "~> 1.42",
                         expressions |-> EmptyDict]]
      [] target_provider = "ovh" ->
            [openstack |->
                [name |-> "openstack",
                 full_name |-> "registry.terraform.io/terraform-provider-openstack/openstack",
                 version_constraint |-> "~> 1.49",
                 expressions |-> [auth_url |-> ConstantValue("https://auth.cloud.ovh.net/v3"),
                                  domain_name |-> ConstantValue("Default")]]]
      [] target_provider = "azure" ->
            [azurerm |-> [name |-> "azurerm",
                          full_name |-> "registry.terraform.io/hashicorp/azurerm",
                          version_constraint |-> "~> 3.0",
                          expressions |-> [features |-> ConstantValue(EmptyDict)]]]
      [] target_provider = "gcp" ->
            [google |-> [name |-> "google",
                         full_name |-> "registry.terraform.io/hashicorp/google",
                         version_constraint |-> "~> 5.0",
                         expressions |-> [project |-> ConstantValue("my-project"),
                                          region |-> ConstantValue("us-central1")]]]

\* an update that adds the target's block to the source's block
UpdateProviderConfigMerged(plan, target_provider) ==
    IF ~Has(plan, "configuration") \/ ~Has(plan["configuration"], "provider_config")
    THEN plan
    ELSE IF target_provider \in {"aws", "hetzner", "ovh", "azure", "gcp"}
         THEN [plan EXCEPT !["configuration"]["provider_config"] =
                               TargetProviderConfig(target_provider) @@ @]
         ELSE plan

UpdateProviderConfig(plan, target_provider) ==
    IF ~Has(plan, "configuration") \/ ~Has(plan["configuration"], "provider_config")
    THEN plan
    ELSE IF target_provider \in {"aws", "hetzner", "ovh", "azure", "gcp"}
         THEN [plan EXCEPT !["configuration"]["provider_config"] =
                               TargetProviderConfig(target_provider)]
         ELSE plan

(***************************************************************************)
(* The rewrite of one entry (translator.py 232-250 and 255-274).  The      *)
(* entry is a dict mutated in place, so an exception leaves it with the    *)
(* assignments made before the raise: an outcome is the entry as left and  *)
(* the exception raised, None when there is none.                          *)
(***************************************************************************)
Left(entry, raised) == [entry |-> entry, raised |-> raised]

\* "compute" in original_type or "instance" in original_type or "server" in original_type
ComputeLike(original_type) ==
    \E word \in {"compute", "instance", "server"} : Contains(original_type, word)

\* resource["type"] = new_type
SetType(entry, new_type) == Put(entry, "type", new_type)

\* lines 244-250, on resource["values"]
RewriteValues(store, source_provider, target_provider, entry, original_type) ==
    IF ~Has(entry, "values")
    THEN {Left(entry, "KeyError")}
    ELSE IF ComputeLike(original_type)
         THEN {IF o.tag = "raise"
               THEN Left(entry, o.val)
               ELSE Left(Put(entry, "values", CleanupValues(source_provider, o.val)), None) :
                  o \in TranslateInstanceValues(store, source_provider, target_provider,
                                                entry["values"])}
         ELSE {Left(Put(entry, "values", CleanupValues(source_provider, entry["values"])),
                    None)}

\* a rewrite of change.after that leaves the cleanup to the planned values
RewriteAfterUncleaned(store, source_provider, target_provider, entry, original_type) ==
    IF ~(Has(entry, "change") /\ Has(entry["change"], "after"))
    THEN {Left(entry, None)}
    ELSE LET after == entry["change"]["after"]
             WithAfter(v) == Put(entry, "change", Put(entry["change"], "after", v))
         IN  IF ComputeLike(original_type)
             THEN {IF o.tag = "raise"
                   THEN Left(entry, o.val)
                   ELSE Left(WithAfter(o.val), None) :
                      o \in TranslateInstanceValues(store, source_provider,
                                                    target_provider, after)}
             ELSE {Left(entry, None)}

\* lines 263-274, on change["change"]["after"]
RewriteAfter(store, source_provider, target_provider, entry, original_type) ==
    IF ~(Has(entry, "change") /\ Has(entry["change"], "after"))
    THEN {Left(entry, None)}
    ELSE LET after == entry["change"]["after"]
             WithAfter(v) == Put(entry, "change", Put(entry["change"], "after", v))
         IN  IF ComputeLike(original_type)
             THEN {IF o.tag = "raise"
                   THEN Left(entry, o.val)
                   ELSE Left(WithAfter(CleanupValues(source_provider, o.val)), None) :
                      o \in TranslateInstanceValues(store, source_provider,
                                                    target_provider, after)}
             ELSE {Left(WithAfter(CleanupValues(source_provider, after)), None)}

\* a rewrite that makes the compute-like test on the rewritten type
RewriteEntryByNewType(store, source_provider, target_provider, entry, section) ==
    LET Mapped(new_type) ==
            IF ~Truthy(new_type)
            THEN {Left(entry, None)}
            ELSE LET typed == SetType(entry, new_type)
                 IN  IF ~Has(typed, "provider_name")
                     THEN {Left(typed, "KeyError")}
                     ELSE LET named == Put(typed, "provider_name",
                                  TranslateProviderName(typed["provider_name"],
                                                        target_provider))
                          IN  IF section = "resources"
                              THEN RewriteValues(store, source_provider, target_provider,
                                                 named, new_type)
                              ELSE RewriteAfter(store, source_provider, target_provider,
                                                named, new_type)
    IN  UNION {Mapped(new_type) :
                  new_type \in Returned(MapResourceType(store, entry["type"],
                                                        target_provider))}

\* lines 232-238 and 255-261, then the value part that `section` has
RewriteEntry(store, source_provider, target_provider, entry, section) ==
    LET original_type == entry["type"]
        Mapped(new_type) ==
            IF ~Truthy(new_type)
            THEN {Left(entry, None)}
            ELSE LET typed == SetType(entry, new_type)
                 IN  IF ~Has(typed, "provider_name")
                     THEN {Left(typed, "KeyError")}
                     ELSE LET named == Put(typed, "provider_name",
                                  TranslateProviderName(typed["provider_name"],
                                                        target_provider))
                          IN  IF section = "resources"
                              THEN RewriteValues(store, source_provider, target_provider,
                                                 named, original_type)
                              ELSE RewriteAfter(store, source_provider, target_provider,
                                                named, original_type)
    IN  UNION {Mapped(new_type) :
                  new_type \in Returned(MapResourceType(store, original_type,
                                                        target_provider))}

(***************************************************************************)
(* The lists translate walks, and the in-place store of a rewritten entry. *)
(***************************************************************************)
\* lines 228-231
PlannedResources(plan) ==
    IF /\ Has(plan, "planned_values")
       /\ Has(plan["planned_values"], "root_module")
       /\ Has(plan["planned_values"]["root_module"], "resources")
    THEN plan["planned_values"]["root_module"]["resources"]
    ELSE <<>>

\* lines 253-254
ResourceChanges(plan) ==
    IF Has(plan, "resource_changes") THEN plan["resource_changes"] ELSE <<>>

\* a list that loses count: the rewritten entry is appended, not stored in place
StoreEntryAppended(entries, n, entry) == Append(entries, entry)

\* the loop variable is the n-th dict of the list: a write to it is a write in place
StoreEntry(entries, n, entry) == [entries EXCEPT ![n] = entry]

WithPlannedResource(plan, n, entry) ==
    [plan EXCEPT !["planned_values"]["root_module"]["resources"] =
                     StoreEntry(@, n, entry)]

WithResourceChange(plan, n, entry) ==
    [plan EXCEPT !["resource_changes"] = StoreEntry(@, n, entry)]

(***************************************************************************)
(* Objects.  heap maps a reference to the document it holds; plan_data and *)
(* translated_plan are references.  json.loads(json.dumps(x)) builds a new *)
(* tree; on a JSON value (objects with string keys, arrays, strings,       *)
(* booleans, null), which is what the documents here are, the new tree     *)
(* equals x.                                                               *)
(***************************************************************************)
NewRef(h) == CHOOSE r \in 1..(Cardinality(DOMAIN h) + 1) : r \notin DOMAIN h

\* translated_plan = plan_data: no copy
AliasCopy(h, ref) == [heap |-> h, ref |-> ref]

\* json.loads(json.dumps(plan_data))
DeepCopy(h, ref) ==
    LET new == NewRef(h)
    IN  [heap |-> [r \in DOMAIN h \cup {new} |-> IF r = new THEN h[ref] ELSE h[r]],
         ref |-> new]

(***************************************************************************)
(* SpecStore: one lookup on a store of any of these contents.              *)
(***************************************************************************)
NoCall == [op |-> "none", source_provider |-> "", key |-> "", target_provider |-> ""]

NoRet == [tag |-> "none", val |-> ""]

\* no command-line run
NoCli == [pc |-> "none"]

Call(op, source_provider, key, target_provider) ==
    [op |-> op, source_provider |-> source_provider, key |-> key,
     target_provider |-> target_provider]

InitStore ==
    /\ db \in StoreContents
    /\ call = NoCall
    /\ ret = NoRet
    /\ heap = EmptyDict
    /\ self = [plan_data |-> None, translated_plan |-> None,
               source_provider |-> None, target_provider |-> None]
    /\ pc = "NoTranslator"
    /\ at = [resources |-> 0, resource_changes |-> 0]
    /\ exc = None
    /\ input = EmptyDict
    /\ cli = NoCli

DoFindEquivalentInstance ==
    /\ call = NoCall
    /\ \E sp \in {"aws", "hetzner"}, st \in {"t3.micro", "m5.large", "cx11"},
          tp \in {"aws", "hetzner"} :
          /\ call' = Call("find_equivalent_instance", sp, st, tp)
          /\ ret' \in FindEquivalentInstance(db, sp, st, tp)
    /\ UNCHANGED <<db, translator, cli>>

DoFindNearestRegion ==
    /\ call = NoCall
    /\ \E sp \in {"aws", "ovh"}, sr \in {"eu-west-2", "UK1", "GRA9"},
          tp \in {"aws", "ovh"} :
          /\ call' = Call("find_nearest_region", sp, sr, tp)
          /\ ret' \in FindNearestRegion(db, sp, sr, tp)
    /\ UNCHANGED <<db, translator, cli>>

DoMapResourceType ==
    /\ call = NoCall
    /\ \E t \in {"aws_instance", "aws_key_pair", "aws_lb", "hcloud_server",
                 "null_resource"},
          tp \in {"aws", "hetzner"} :
          /\ call' = Call("map_resource_type", "", t, tp)
          /\ ret' \in MapResourceType(db, t, tp)
    /\ UNCHANGED <<db, translator, cli>>

DoFindImage ==
    /\ call = NoCall
    /\ \E sp \in {"ovh", "aws"},
          img \in {"Ubuntu 22.04", "ami-ubuntu-22.04", "ami-debian-12"},
          tp \in {"ovh", "aws"} :
          /\ call' = Call("find_image", sp, img, tp)
          /\ ret' \in FindImage(db, sp, img, tp)
    /\ UNCHANGED <<db, translator, cli>>

NextStore ==
    \/ DoFindEquivalentInstance
    \/ DoFindNearestRegion
    \/ DoMapResourceType
    \/ DoFindImage

SpecStore == InitStore /\ [][NextStore]_vars

(***************************************************************************)
(* Spec: one RosettaTranslator, constructed on a plan document, and one    *)
(* call of translate on it.                                                *)
(*                                                                         *)
(* The documents: a configuration block or none, and up to MaxEntries      *)
(* entries over the two lists, drawn from entries of the three providers'  *)
(* native types and one type no store knows.  One planned entry has just   *)
(* the keys {address, type, values}; the others also carry provider_name   *)
(* and mode, as `terraform show -json` writes them.                        *)
(***************************************************************************)
MaxEntries == 2

OpenstackProvider == "registry.terraform.io/terraform-provider-openstack/openstack"

AwsProvider == "registry.terraform.io/hashicorp/aws"

HcloudProvider == "registry.terraform.io/hetznercloud/hcloud"

NullProvider == "registry.terraform.io/hashicorp/null"

AwsInstanceValues ==
    [instance_type |-> "t3.micro", ami |-> "ami-ubuntu-22.04",
     availability_zone |-> "eu-west-2a", tags |-> [Name |-> "web"],
     user_data |-> "#!/bin/sh"]

OvhInstanceValues ==
    [flavor_name |-> "d2-2", image_name |-> "Ubuntu 22.04", region |-> "GRA9",
     availability_zone |-> "nova",
     name |-> "web", key_pair |-> "deploy", user_data |-> "#!/bin/sh",
     network |-> <<[name |-> "Ext-Net"]>>, security_groups |-> <<"default">>]

HetznerServerValues ==
    [server_type |-> "cx11", image |-> "ubuntu-22.04", location |-> "nbg1",
     name |-> "web"]

KeyValues == [name |-> "deploy", public_key |-> "ssh-ed25519 AAAA"]

Managed(address, type, provider_name, values) ==
    [address |-> address, mode |-> "managed", type |-> type,
     provider_name |-> provider_name, values |-> values]

PlannedPool ==
    {[address |-> "aws_instance.bare", type |-> "aws_instance",
      values |-> [instance_type |-> "t3.micro"]],
     Managed("aws_instance.web", "aws_instance", AwsProvider, AwsInstanceValues),
     Managed("aws_key_pair.deploy", "aws_key_pair", AwsProvider,
             [key_name |-> "deploy", public_key |-> "ssh-ed25519 AAAA",
              tags |-> [Name |-> "deploy"]]),
     Managed("openstack_compute_instance_v2.web", "openstack_compute_instance_v2",
             OpenstackProvider, OvhInstanceValues),
     Managed("openstack_compute_keypair_v2.deploy", "openstack_compute_keypair_v2",
             OpenstackProvider, KeyValues),
     Managed("hcloud_server.web", "hcloud_server", HcloudProvider, HetznerServerValues),
     Managed("null_resource.once", "null_resource", NullProvider, EmptyDict)}

\* the resource_changes entry that creates, or deletes, a planned resource
Created(r) ==
    Put(Pop(r, {"values"}), "change",
        [actions |-> <<"create">>, before |-> Null, after |-> r["values"]])

Deleted(r) ==
    Put(Pop(r, {"values"}), "change",
        [actions |-> <<"delete">>, before |-> r["values"], after |-> Null])

ChangePool ==
    {Created(r) : r \in PlannedPool}
    \cup {Deleted(r) : r \in {x \in PlannedPool :
                                 x["address"] \in {"aws_instance.web", "aws_key_pair.deploy"}}}

\* the non-empty lists of n entries at most
Lists(pool, n) == UNION {[1..k -> pool] : k \in 1..n}

SourceProviderConfigs ==
    {[k \in {key} |-> [name |-> key]] : key \in {"aws", "openstack", "azurerm", "null"}}

ConfigurationSections ==
    {EmptyDict}
    \cup {[configuration |-> [provider_config |-> c, root_module |-> EmptyDict]] :
             c \in SourceProviderConfigs}

PlannedSections(n) ==
    {EmptyDict}
    \cup {[planned_values |-> [root_module |-> [resources |-> r]]] :
             r \in Lists(PlannedPool, n)}

ChangeSections(n) ==
    {EmptyDict} \cup {[resource_changes |-> g] : g \in Lists(ChangePool, n)}

\* a section is there or not; the two lists hold MaxEntries entries at most
Documents ==
    UNION {{[format_version |-> "1.2"] @@ c @@ p @@ g :
               c \in ConfigurationSections,
               g \in ChangeSections(MaxEntries - Len(PlannedResources(p)))} :
              p \in PlannedSections(MaxEntries)}

Targets == {"aws", "ovh", "hetzner", "azure", "gcp"}

\* RosettaTranslator.__init__
Init ==
    /\ db \in {SeedStore, EmptyStore}
    /\ input \in Documents
    /\ LET copy == DeepCopy([r \in {1} |-> input], 1)
       IN  /\ heap = copy.heap
           /\ self = [plan_data |-> 1, translated_plan |-> copy.ref,
                      source_provider |-> None, target_provider |-> None]
    /\ pc = "Init"
    /\ at = [resources |-> 0, resource_changes |-> 0]
    /\ exc = None
    /\ call = NoCall
    /\ ret = NoRet
    /\ cli = NoCli

\* translate, lines 220-221
Detect ==
    /\ pc = "Init"
    /\ \E target_provider \in Targets :
          self' = [self EXCEPT
                      !.source_provider = DetectSourceProvider(heap[self.plan_data]),
                      !.target_provider = target_provider]
    /\ pc' = "ProviderDetected"
    /\ UNCHANGED <<cli, db, call, ret, heap, at, exc, input>>

\* one turn of the loop at line 231
RewritePlannedResource ==
    /\ pc = "ProviderDetected"
    /\ at.resources < Len(PlannedResources(heap[self.translated_plan]))
    /\ LET n == at.resources + 1
           plan == heap[self.translated_plan]
       IN  \E o \in RewriteEntry(db, self.source_provider, self.target_provider,
                                 PlannedResources(plan)[n], "resources") :
              /\ heap' = [heap EXCEPT ![self.translated_plan] =
                                          WithPlannedResource(plan, n, o.entry)]
              /\ IF o.raised = None
                 THEN /\ at' = [at EXCEPT !.resources = n]
                      /\ UNCHANGED <<pc, exc>>
                 ELSE /\ pc' = "Raised"
                      /\ exc' = o.raised
                      /\ UNCHANGED at
    /\ UNCHANGED <<cli, db, call, ret, self, input>>

\* one turn of the loop at line 254
RewriteResourceChange ==
    /\ pc = "ProviderDetected"
    /\ at.resources = Len(PlannedResources(heap[self.translated_plan]))
    /\ at.resource_changes < Len(ResourceChanges(heap[self.translated_plan]))
    /\ LET n == at.resource_changes + 1
           plan == heap[self.translated_plan]
       IN  \E o \in RewriteEntry(db, self.source_provider, self.target_provider,
                                 ResourceChanges(plan)[n], "resource_changes") :
              /\ heap' = [heap EXCEPT ![self.translated_plan] =
                                          WithResourceChange(plan, n, o.entry)]
              /\ IF o.raised = None
                 THEN /\ at' = [at EXCEPT !.resource_changes = n]
                      /\ UNCHANGED <<pc, exc>>
                 ELSE /\ pc' = "Raised"
                      /\ exc' = o.raised
                      /\ UNCHANGED at
    /\ UNCHANGED <<cli, db, call, ret, self, input>>

\* both loops have run to their end
ResourcesRewritten ==
    /\ pc = "ProviderDetected"
    /\ at.resources = Len(PlannedResources(heap[self.translated_plan]))
    /\ at.resource_changes = Len(ResourceChanges(heap[self.translated_plan]))
    /\ pc' = "ResourcesRewritten"
    /\ UNCHANGED <<cli, db, call, ret, heap, self, at, exc, input>>

\* line 277
RewriteProviderConfig ==
    /\ pc = "ResourcesRewritten"
    /\ heap' = [heap EXCEPT ![self.translated_plan] =
                                UpdateProviderConfig(@, self.target_provider)]
    /\ pc' = "ProviderConfigRewritten"
    /\ UNCHANGED <<cli, db, call, ret, self, at, exc, input>>

\* line 281: return self.translated_plan
ReturnTranslated ==
    /\ pc = "ProviderConfigRewritten"
    /\ pc' = "Done"
    /\ UNCHANGED <<cli, db, call, ret, heap, self, at, exc, input>>

Next ==
    \/ Detect
    \/ RewritePlannedResource
    \/ RewriteResourceChange
    \/ ResourcesRewritten
    \/ RewriteProviderConfig
    \/ ReturnTranslated

Spec == Init /\ [][Next]_vars

(***************************************************************************)
(* Claims on the lookups, under SpecStore.                                 *)
(***************************************************************************)
IsCall(op) == call.op = op

\* The rows the call's source key and target provider name.
CallSourceInstances ==
    {r \in db.instance_types :
        r.provider = call.source_provider /\ r.instance_type = call.key}

ReturnedInstances ==
    {r \in db.instance_types :
        r.provider = call.target_provider /\ r.instance_type = ret.val}

\* 0.5 * s.x <= c.x <= 2 * s.x for x = vcpu and x = memory_gb
WithinHalfToDouble(c, s) ==
    /\ s.vcpu <= 2 * c.vcpu
    /\ c.vcpu <= 2 * s.vcpu
    /\ s.memory_half_gb <= 2 * c.memory_half_gb
    /\ c.memory_half_gb <= 2 * s.memory_half_gb

\* C1: an instance type find_equivalent_instance returns is a row of the
\* target provider whose vcpu and memory_gb both lie within [0.5x, 2x] of the
\* source row's.
C1_ResultInWindow ==
    (IsCall("find_equivalent_instance") /\ ret.tag = "return" /\ ret.val # None)
        => /\ CallSourceInstances # {}
           /\ ReturnedInstances # {}
           /\ \A c \in ReturnedInstances : \A s \in CallSourceInstances :
                 WithinHalfToDouble(c, s)

\* An instance was returned although the target provider also holds a row
\* outside the window.
C1_Witness ==
    /\ IsCall("find_equivalent_instance")
    /\ ret.tag = "return"
    /\ ret.val # None
    /\ \E d \in db.instance_types : \E s \in CallSourceInstances :
          d.provider = call.target_provider /\ ~WithinHalfToDouble(d, s)

\* 4 * score, score = |vcpu diff| + 0.5 * |memory_gb diff|
Score4(c, s) ==
    4 * Abs(c.vcpu - s.vcpu) + Abs(c.memory_half_gb - s.memory_half_gb)

WindowOf(s) ==
    {c \in db.instance_types :
        c.provider = call.target_provider /\ WithinHalfToDouble(c, s)}

MinScoreIn(c, group, s) ==
    c \in group /\ \A d \in group : Score4(c, s) <= Score4(d, s)

\* C2: the result is ordered family-first, then by score: with a same-family
\* candidate in the window the result is a same-family candidate of least
\* score among those; with none it is a candidate of least score in the
\* window; with an empty window (or no source row) the result is absent.  On
\* the seeded store aws t3.micro maps to hetzner cpx11.
C2_FamilyThenScore ==
    IsCall("find_equivalent_instance") =>
        /\ ret.tag = "return"
        /\ CallSourceInstances = {} => ret.val = None
        /\ \A s \in CallSourceInstances :
              LET window == WindowOf(s)
                  same == {c \in window : c.family = s.family}
              IN  /\ window = {} => ret.val = None
                  /\ same # {} =>
                        \E c \in ReturnedInstances : MinScoreIn(c, same, s)
                  /\ (window # {} /\ same = {}) =>
                        \E c \in ReturnedInstances : MinScoreIn(c, window, s)
        /\ (db = SeedStore
            /\ call = Call("find_equivalent_instance", "aws", "t3.micro", "hetzner"))
              => ret.val = "cpx11"

\* A same-family candidate was returned although a candidate of another
\* family in the window has a strictly smaller score.
C2_Witness ==
    /\ IsCall("find_equivalent_instance")
    /\ ret.tag = "return"
    /\ \E s \in CallSourceInstances : \E c \in ReturnedInstances :
          \E d \in WindowOf(s) :
             /\ c.family = s.family
             /\ d.family # s.family
             /\ Score4(d, s) < Score4(c, s)

\* C3 (as claimed): a self-mapping of a stored instance type returns that
\* instance type.
C3_Reflexive ==
    (IsCall("find_equivalent_instance")
     /\ call.source_provider = call.target_provider
     /\ CallSourceInstances # {})
        => ret = Return(call.key)

CallSourceRegions ==
    {r \in db.regions :
        r.provider = call.source_provider /\ r.region_code = call.key}

TargetRegions == {r \in db.regions : r.provider = call.target_provider}

ReturnedRegions == {r \in TargetRegions : r.region_code = ret.val}

\* C4: when the target provider has a region on the source region's
\* continent, the region returned is on that continent.
C4_SameContinentFirst ==
    IsCall("find_nearest_region") =>
        \A s \in CallSourceRegions :
            (\E c \in TargetRegions : c.continent = s.continent)
                => /\ ret.tag = "return"
                   /\ ReturnedRegions # {}
                   /\ \A c \in ReturnedRegions : c.continent = s.continent

\* A same-continent region was returned although a region of the target
\* provider on another continent is strictly nearer.
C4_Witness ==
    /\ IsCall("find_nearest_region")
    /\ \E s \in CallSourceRegions : \E c \in ReturnedRegions : \E d \in TargetRegions :
          /\ c.continent = s.continent
          /\ d.continent # s.continent
          /\ DistLess(DistSq(d, s.latitude, s.longitude),
                      DistSq(c, s.latitude, s.longitude))

PreferredRegions(s) ==
    LET same == {c \in TargetRegions : c.continent = s.continent}
    IN  IF same # {} THEN same ELSE TargetRegions

\* C5: the region returned lies in the preferred group (the target's regions
\* on the source's continent if any, else all its regions) and none of the
\* group is strictly nearer by squared planar distance.  On the seeded store
\* aws eu-west-2 maps to ovh UK1.
C5_NearestInGroup ==
    IsCall("find_nearest_region") =>
        /\ \A s \in CallSourceRegions :
              PreferredRegions(s) # {} =>
                 /\ ret.tag = "return"
                 /\ \E c \in ReturnedRegions :
                       /\ c \in PreferredRegions(s)
                       /\ \A g \in PreferredRegions(s) :
                             ~DistLess(DistSq(g, s.latitude, s.longitude),
                                       DistSq(c, s.latitude, s.longitude))
        /\ (db = SeedStore
            /\ call = Call("find_nearest_region", "aws", "eu-west-2", "ovh"))
              => ret.val = "UK1"

\* eu-west-2 resolved to UK1 on the seeded store, GRA9 being on the same
\* continent at a positive distance.
C5_Witness ==
    /\ db = SeedStore
    /\ call = Call("find_nearest_region", "aws", "eu-west-2", "ovh")
    /\ ret = Return("UK1")
    /\ \E g \in TargetRegions : \E s \in CallSourceRegions :
          /\ g.region_code = "GRA9"
          /\ g.continent = s.continent
          /\ DistLess(<<0, 0>>, DistSq(g, s.latitude, s.longitude))

\* The call misses: its source key is not in the store, or the target
\* provider has no matching row.
SourceMiss ==
    \/ IsCall("find_equivalent_instance") /\ CallSourceInstances = {}
    \/ IsCall("find_nearest_region") /\ CallSourceRegions = {}
    \/ /\ IsCall("map_resource_type")
       /\ ~\E r \in ResourceTypeRows(db) : r.terraform_type = call.key
    \/ /\ IsCall("find_image")
       /\ ~\E i \in db.images :
             i.provider = call.source_provider /\ i.image_name = call.key

TargetMiss ==
    \/ /\ IsCall("find_equivalent_instance")
       /\ \A s \in CallSourceInstances : WindowOf(s) = {}
    \/ IsCall("find_nearest_region") /\ TargetRegions = {}
    \/ /\ IsCall("map_resource_type")
       /\ \A r \in ResourceTypeRows(db) :
             r.terraform_type = call.key =>
                ~\E t \in ResourceTypeRows(db) :
                    /\ t.provider = call.target_provider
                    /\ t.resource_category = r.resource_category
    \/ /\ IsCall("find_image")
       /\ \A i \in db.images :
             (i.provider = call.source_provider /\ i.image_name = call.key) =>
                ~\E t \in db.images :
                    /\ t.provider = call.target_provider
                    /\ t.os_family = i.os_family
                    /\ t.os_version = i.os_version

ModuleNames ==
    {"json", "sys", "argparse", "logging", "Dict", "Any", "Optional", "logger",
     "CloudRosettaDB", "RosettaTranslator", "main"}

\* the file at args.input_file
InputFiles ==
    {[kind |-> "missing"], [kind |-> "malformed"]}
    \cup {[kind |-> "json", plan |-> d] : d \in Documents}

\* open(args.input_file, 'r') and json.load(f), lines 410-411
ReadPlan(file) ==
    CASE file.kind = "missing" -> Raise("FileNotFoundError")
      [] file.kind = "malformed" -> Raise("JSONDecodeError")
      [] OTHER -> Return(file.plan)

\* a handler that lets the decode error through: the run ends with status 0
StatusLenient(e) == IF e = "JSONDecodeError" THEN 0 ELSE 1

\* the three except clauses, lines 427-438: each ends in sys.exit(1)
Status(e) ==
    CASE e = "FileNotFoundError" -> 1
      [] e = "JSONDecodeError" -> 1
      [] OTHER -> 1

Exited(run, e) == [run EXCEPT !.pc = "exited", !.error = e, !.status = Status(e)]

\* parse_args: --target is one of the three choices, --output is optional
InitMain ==
    /\ db \in {SeedStore, EmptyStore}
    /\ call = NoCall
    /\ ret = NoRet
    /\ heap = EmptyDict
    /\ self = [plan_data |-> None, translated_plan |-> None,
               source_provider |-> None, target_provider |-> None]
    /\ pc = "NoTranslator"
    /\ at = [resources |-> 0, resource_changes |-> 0]
    /\ exc = None
    /\ input = EmptyDict
    /\ \E file \in InputFiles, target \in {"aws", "ovh", "hetzner"},
          output \in {None, "out.json"} :
          cli = [pc |-> "parsed", file |-> file, target |-> target, output |-> output,
                 plan_data |-> EmptyDict, error |-> None, status |-> 0,
                 stdout |-> <<>>, written |-> {}]

\* lines 408-411
MainReadPlan ==
    /\ cli.pc = "parsed"
    /\ LET o == ReadPlan(cli.file)
       IN  cli' = IF o.tag = "raise"
                  THEN Exited(cli, o.val)
                  ELSE [cli EXCEPT !.pc = "loaded", !.plan_data = o.val]
    /\ UNCHANGED <<db, call, ret, translator>>

\* line 414: the name RosettaTranslatorV2 is not bound, so the call raises
\* NameError before a translator is constructed
MainTranslate ==
    /\ cli.pc = "loaded"
    /\ "RosettaTranslatorV2" \notin ModuleNames
    /\ cli' = Exited(cli, "NameError")
    /\ UNCHANGED <<db, call, ret, translator>>

NextMain ==
    \/ MainReadPlan
    \/ MainTranslate

SpecMain == InitMain /\ [][NextMain]_vars

(***************************************************************************)
(* Claims on the translator, under Spec.                                   *)
(***************************************************************************)
Constructed == pc # "NoTranslator"

Output == heap[self.translated_plan]

\* a and b have the same keys and agree on every key outside ks
SameBut(a, b, ks) ==
    /\ DOMAIN a = DOMAIN b
    /\ \A k \in DOMAIN a \ ks : a[k] = b[k]

\* C7: the document the translator was constructed on is never mutated: after
\* construction and at every point of translate, for every target and store,
\* plan_data holds the value it was given; the writes go to translated_plan,
\* which is another object.
C7_PlanDataNeverMutated ==
    Constructed =>
        /\ heap[self.plan_data] = input
        /\ self.translated_plan # self.plan_data

\* translate has returned a document that differs from the one given
C7_Witness ==
    /\ pc = "Done"
    /\ Output # input
    /\ heap[self.plan_data] = input

\* C8: translate preserves the two resource lists: each has as many entries as
\* in the input, in the same order; every entry keeps its address; an entry
\* differs from its input in nothing but type, provider_name and its value map
\* (values, or after under change).
C8_ListsPreserved ==
    Constructed =>
        LET was == PlannedResources(input)
            now == PlannedResources(Output)
            changed == ResourceChanges(input)
            changes == ResourceChanges(Output)
        IN  /\ Len(now) = Len(was)
            /\ Len(changes) = Len(changed)
            /\ \A n \in DOMAIN was :
                  /\ now[n]["address"] = was[n]["address"]
                  /\ SameBut(was[n], now[n], {"type", "provider_name", "values"})
            /\ \A n \in DOMAIN changed :
                  /\ changes[n]["address"] = changed[n]["address"]
                  /\ SameBut(changed[n], changes[n], {"type", "provider_name", "change"})
                  /\ SameBut(changed[n]["change"], changes[n]["change"], {"after"})

\* translate has returned with a planned entry and a change entry rewritten
C8_Witness ==
    /\ pc = "Done"
    /\ \E n \in DOMAIN PlannedResources(input) :
          /\ PlannedResources(Output)[n]["type"] # PlannedResources(input)[n]["type"]
          /\ PlannedResources(Output)[n]["values"] # PlannedResources(input)[n]["values"]
    /\ \E n \in DOMAIN ResourceChanges(input) :
          /\ ResourceChanges(Output)[n]["type"] # ResourceChanges(input)[n]["type"]
          /\ ResourceChanges(Output)[n]["change"]["after"] #
                 ResourceChanges(input)[n]["change"]["after"]

StoreTypes == {r.terraform_type : r \in ResourceTypeRows(db)}

\* C9: when the detected source provider is the target provider, the document
\* translate returns has, for every entry whose type is a native type of the
\* store, the type the entry had in the input.
C9_SameProviderKeepsTypes ==
    (pc = "Done" /\ self.source_provider = self.target_provider) =>
        /\ \A n \in DOMAIN PlannedResources(input) :
              PlannedResources(input)[n]["type"] \in StoreTypes =>
                  PlannedResources(Output)[n]["type"] = PlannedResources(input)[n]["type"]
        /\ \A n \in DOMAIN ResourceChanges(input) :
              ResourceChanges(input)[n]["type"] \in StoreTypes =>
                  ResourceChanges(Output)[n]["type"] = ResourceChanges(input)[n]["type"]

\* the shape of section 3: planned entries {address, type, values}, change
\* entries {address, type, change: {before, after}}, configuration.provider_config
DocumentedShape(plan) ==
    /\ Has(plan, "configuration")
    /\ Has(plan["configuration"], "provider_config")
    /\ \A n \in DOMAIN PlannedResources(plan) :
          {"address", "type", "values"} \subseteq DOMAIN PlannedResources(plan)[n]
    /\ \A n \in DOMAIN ResourceChanges(plan) :
          /\ {"address", "type", "change"} \subseteq DOMAIN ResourceChanges(plan)[n]
          /\ {"before", "after"} \subseteq DOMAIN ResourceChanges(plan)[n]["change"]

\* C10: on a document of the documented shape translate never raises, for
\* every target and store, whether the lookups hit or miss.
C10_NeverRaises ==
    (Constructed /\ DocumentedShape(input)) => pc # "Raised"

(***************************************************************************)
(* Claims on the command line, under SpecMain.                             *)
(***************************************************************************)
\* C11: a finished command-line run has status zero whenever the input file
\* exists and parses as JSON, and a non-zero status only when the file is
\* missing or is not JSON.
C11_ZeroUnlessUnreadable ==
    cli.pc = "exited" =>
        (cli.status # 0 <=> cli.file.kind \in {"missing", "malformed"})

\* C12: an input file that is not JSON ends the run before any translation
\* step: the status is non-zero, the error is the decode error, no translator
\* exists or moves, and nothing is written to the output file or to stdout.
C12_MalformedIsFatal ==
    (cli.pc # "none" /\ cli.file.kind = "malformed") =>
        /\ cli.pc \in {"parsed", "exited"}
        /\ cli.pc = "exited" => (cli.status # 0 /\ cli.error = "JSONDecodeError")
        /\ pc = "NoTranslator"
        /\ cli.stdout = <<>>
        /\ cli.written = {}

\* a run on a file that is not JSON has ended
C12_Witness ==
    /\ cli.pc = "exited"
    /\ cli.file.kind = "malformed"
    /\ cli.output = "out.json"

(***************************************************************************)
(* Claims on the translator, under Spec (continued).                       *)
(***************************************************************************)
\* map_resource_type returns None for this type and the run's target
Unresolved(type) ==
    Returned(MapResourceType(db, type, self.target_provider)) = {None}

\* C13: an entry whose type map_resource_type does not resolve is left as it
\* was: at every point of the run, hence in the output, the entry (its type,
\* provider_name, value map and every other key) equals the input's entry, so
\* neither value translation nor cleanup has touched it.
C13_UnresolvedUntouched ==
    (Constructed /\ pc # "Init") =>
        /\ \A n \in DOMAIN PlannedResources(input) :
              Unresolved(PlannedResources(input)[n]["type"]) =>
                  PlannedResources(Output)[n] = PlannedResources(input)[n]
        /\ \A n \in DOMAIN ResourceChanges(input) :
              Unresolved(ResourceChanges(input)[n]["type"]) =>
                  ResourceChanges(Output)[n] = ResourceChanges(input)[n]

\* translate has returned on the seeded store, with an unresolved planned
\* entry next to a change entry that was rewritten
C13_Witness ==
    /\ pc = "Done"
    /\ db = SeedStore
    /\ self.source_provider = "aws"
    /\ \E n \in DOMAIN PlannedResources(input) :
          Unresolved(PlannedResources(input)[n]["type"])
    /\ \E n \in DOMAIN ResourceChanges(input) :
          ResourceChanges(Output)[n] # ResourceChanges(input)[n]

\* the value maps translate_instance_values can return for an input value map
TranslatedMaps(values) ==
    Returned(TranslateInstanceValues(db, self.source_provider, self.target_provider,
                                     values))

\* a compute-like entry type that resolved
RewrittenComputeLike(type) == ComputeLike(type) /\ ~Unresolved(type)

\* C14: cleanup strips nothing that value translation wrote: for every source
\* and target provider, the value map a rewritten compute-like entry ends with
\* is a map translate_instance_values returned for it, every key it wrote still
\* there with its value.
C14_CleanupKeepsWritten ==
    (Constructed /\ pc # "Init") =>
        /\ \A n \in 1..at.resources :
              RewrittenComputeLike(PlannedResources(input)[n]["type"]) =>
                  PlannedResources(Output)[n]["values"] \in
                      TranslatedMaps(PlannedResources(input)[n]["values"])
        /\ \A n \in 1..at.resource_changes :
              (/\ RewrittenComputeLike(ResourceChanges(input)[n]["type"])
               /\ ResourceChanges(input)[n]["change"]["after"] # Null) =>
                  ResourceChanges(Output)[n]["change"]["after"] \in
                      TranslatedMaps(ResourceChanges(input)[n]["change"]["after"])

\* the blocks of section 4.6: provider key, registry address, version
\* constraint and the expressions required
LiteralBlock(target) ==
    CASE target = "aws" ->
            [key |-> "aws", full_name |-> "registry.terraform.io/hashicorp/aws",
             version_constraint |-> "~> 5.0", expressions |-> {"region"}]
      [] target = "ovh" ->
            [key |-> "openstack",
             full_name |-> "registry.terraform.io/terraform-provider-openstack/openstack",
             version_constraint |-> "~> 1.49",
             expressions |-> {"auth_url", "domain_name"}]
      [] target = "hetzner" ->
            [key |-> "hcloud", full_name |-> "registry.terraform.io/hetznercloud/hcloud",
             version_constraint |-> "~> 1.42", expressions |-> {}]
      [] target = "azure" ->
            [key |-> "azurerm", full_name |-> "registry.terraform.io/hashicorp/azurerm",
             version_constraint |-> "~> 3.0", expressions |-> {"features"}]
      [] target = "gcp" ->
            [key |-> "google", full_name |-> "registry.terraform.io/hashicorp/google",
             version_constraint |-> "~> 5.0", expressions |-> {"project", "region"}]

HasProviderConfig(plan) ==
    Has(plan, "configuration") /\ Has(plan["configuration"], "provider_config")

\* C15: once translate has rewritten the provider configuration of a document
\* that has one, the block is the target's literal block, whatever the source
\* block held: one provider key, with its name, registry address, version
\* constraint and required expressions, and no key of the source block beside it.
C15_ProviderConfigIsLiteral ==
    (pc \in {"ProviderConfigRewritten", "Done"} /\ HasProviderConfig(input)) =>
        LET block == Output["configuration"]["provider_config"]
            literal == LiteralBlock(self.target_provider)
        IN  /\ DOMAIN block = {literal.key}
            /\ DOMAIN block[literal.key] =
                   {"name", "full_name", "version_constraint", "expressions"}
            /\ block[literal.key]["name"] = literal.key
            /\ block[literal.key]["full_name"] = literal.full_name
            /\ block[literal.key]["version_constraint"] = literal.version_constraint
            /\ DOMAIN block[literal.key]["expressions"] = literal.expressions
            /\ block = TargetProviderConfig(self.target_provider)

\* translate to gcp has returned on a document configured for openstack
C15_Witness ==
    /\ pc = "Done"
    /\ self.target_provider = "gcp"
    /\ HasProviderConfig(input)
    /\ "openstack" \in DOMAIN input["configuration"]["provider_config"]

\* C16: when detection yields "unknown" the run does not raise, every type
\* lookup it makes returns None, and no entry's type or value map differs from
\* the input's.
C16_UnknownSourceChangesNothing ==
    (Constructed /\ self.source_provider = "unknown") =>
        /\ pc # "Raised"
        /\ \A n \in DOMAIN PlannedResources(input) :
              /\ Unresolved(PlannedResources(input)[n]["type"])
              /\ PlannedResources(Output)[n]["type"] = PlannedResources(input)[n]["type"]
              /\ PlannedResources(Output)[n]["values"] =
                     PlannedResources(input)[n]["values"]
        /\ \A n \in DOMAIN ResourceChanges(input) :
              /\ Unresolved(ResourceChanges(input)[n]["type"])
              /\ ResourceChanges(Output)[n]["type"] = ResourceChanges(input)[n]["type"]
              /\ ResourceChanges(Output)[n]["change"]["after"] =
                     ResourceChanges(input)[n]["change"]["after"]

(***************************************************************************)
(* FairSpec: the run of Spec, which goes on while it has a step to take:   *)
(* translate is one sequential call.                                       *)
(***************************************************************************)
FairSpec == Spec /\ WF_vars(Next)

PcRank(p) ==
    CASE p = "Init" -> 0
      [] p = "ProviderDetected" -> 1
      [] p = "ResourcesRewritten" -> 2
      [] p = "ProviderConfigRewritten" -> 3
      [] p = "Done" -> 4
      [] OTHER -> -1

\* a step of the run: to the next state of the five, or one entry further
InOrderStep ==
    /\ PcRank(pc') >= 0
    /\ PcRank(pc') \in {PcRank(pc), PcRank(pc) + 1}
    \* the source provider is fixed on leaving Init
    /\ pc # "Init" => self' = self
    /\ pc = "Init" => (at' = at /\ Output' = Output)
    \* entries are visited one at a time, planned_values before resource_changes
    /\ \/ at' = at
       \/ /\ pc = "ProviderDetected"
          /\ at' = [at EXCEPT !.resources = @ + 1]
          /\ at.resource_changes = 0
       \/ /\ pc = "ProviderDetected"
          /\ at' = [at EXCEPT !.resource_changes = @ + 1]
          /\ at.resources = Len(PlannedResources(input))
    \* only the entry being visited is written
    /\ \A n \in DOMAIN PlannedResources(input) :
          PlannedResources(Output')[n] # PlannedResources(Output)[n] =>
              (n = at.resources + 1 /\ at'.resources = n)
    /\ \A n \in DOMAIN ResourceChanges(input) :
          ResourceChanges(Output')[n] # ResourceChanges(Output)[n] =>
              (n = at.resource_changes + 1 /\ at'.resource_changes = n)
    \* the loops are left only when every entry has been visited
    /\ pc' = "ResourcesRewritten" =>
          /\ at'.resources = Len(PlannedResources(input))
          /\ at'.resource_changes = Len(ResourceChanges(input))
    \* the provider configuration is written after the last entry only
    /\ (HasProviderConfig(input) /\
        Output'["configuration"] # Output["configuration"]) =>
          (pc = "ResourcesRewritten" /\ pc' = "ProviderConfigRewritten")

\* the order of a run, leaving open how it ends
OnePass == [][InOrderStep \/ pc' = "Raised"]_vars

\* C17: a run goes through Init, ProviderDetected, ResourcesRewritten,
\* ProviderConfigRewritten, Done in that order and revisits none: the source
\* provider is fixed before the first entry is rewritten, every entry of
\* planned_values and then of resource_changes is visited once in list order,
\* the provider configuration is rewritten after the last entry, and the run
\* ends in Done.
C17_OnePassToDone == [][InOrderStep]_vars /\ <>(pc = "Done")

(***************************************************************************)
(* Claims on the lookups, under SpecStore (continued).                     *)
(***************************************************************************)
\* the ids (positions) of the target provider's rows of a category
TargetIds(category) ==
    {i \in DOMAIN db.resource_types :
        /\ db.resource_types[i].provider = call.target_provider
        /\ db.resource_types[i].resource_category = category}

\* C18: map_resource_type is deterministic: what it returns is the type of the
\* row with the lowest id among the target provider's rows of the source type's
\* category, also when several rows share that provider and category.
C18_LowestIdentifier ==
    (IsCall("map_resource_type") /\ SourceCategories(db, call.key) # {}) =>
        \E category \in SourceCategories(db, call.key) :
            IF TargetIds(category) = {}
            THEN ret = Return(None)
            ELSE LET lowest == CHOOSE i \in TargetIds(category) :
                                   \A j \in TargetIds(category) : i <= j
                 IN  ret = Return(db.resource_types[lowest].terraform_type)

(***************************************************************************)
(* Claims on source detection, under Spec.                                 *)
(***************************************************************************)
\* the prefix table of section 4.1
PrefixProvider(type) ==
    IF StartsWith(type, "openstack_") THEN "ovh"
    ELSE IF StartsWith(type, "aws_") THEN "aws"
    ELSE IF StartsWith(type, "hcloud_") THEN "hetzner"
    ELSE IF StartsWith(type, "azurerm_") THEN "azure"
    ELSE IF StartsWith(type, "google_") THEN "gcp"
    ELSE "unknown"

\* the recognised provider keys and the providers they stand for
ConfigProvider(keys) ==
    IF keys \cap {"openstack", "openstack.ovh"} # {} THEN "ovh"
    ELSE IF "aws" \in keys THEN "aws"
    ELSE IF "hcloud" \in keys THEN "hetzner"
    ELSE IF "azurerm" \in keys THEN "azure"
    ELSE IF "google" \in keys THEN "gcp"
    ELSE "unknown"

\* the resources of a document in the order translate meets them
Encountered(plan) == PlannedResources(plan) \o ResourceChanges(plan)

Detected == Constructed /\ pc # "Init"

\* C19: the detected source is the provider of a recognised key of
\* configuration.provider_config when there is one; otherwise it is what the
\* prefix table gives for the type of the first resource encountered, "unknown"
\* when that type's prefix is not in the table (or there is no resource).
C19_ConfigThenFirstResource ==
    Detected =>
        LET keys == IF HasProviderConfig(input)
                    THEN DOMAIN input["configuration"]["provider_config"]
                    ELSE {}
        IN  self.source_provider =
                IF ConfigProvider(keys) # "unknown" THEN ConfigProvider(keys)
                ELSE IF Encountered(input) = <<>> THEN "unknown"
                ELSE PrefixProvider(Encountered(input)[1]["type"])

\* C20: a plan with no configuration and no resource_changes, whose resources
\* under planned_values all have types of one provider's prefix, is detected
\* as that provider: one aws_instance gives "aws", not "unknown".
C20_PlannedOnlyDetected ==
    (/\ Detected
     /\ ~Has(input, "configuration")
     /\ ~Has(input, "resource_changes")
     /\ PlannedResources(input) # <<>>) =>
        \A n \in DOMAIN PlannedResources(input) :
            (\A m \in DOMAIN PlannedResources(input) :
                PrefixProvider(PlannedResources(input)[m]["type"]) =
                    PrefixProvider(PlannedResources(input)[n]["type"])) =>
                self.source_provider = PrefixProvider(PlannedResources(input)[n]["type"])

\* the instance field a value map carries, in the order the code tests them
CarriedInstanceField(values) ==
    IF Has(values, "flavor_name") THEN "flavor_name"
    ELSE IF Has(values, "instance_type") THEN "instance_type"
    ELSE IF Has(values, "server_type") THEN "server_type"
    ELSE None

\* the instance field of a provider's compute resource
InstanceFieldOf(provider) ==
    CASE provider = "aws" -> "instance_type"
      [] provider = "ovh" -> "flavor_name"
      [] provider = "hetzner" -> "server_type"

\* the value maps of the compute-like entries of a document, of both lists
ComputeLikeValueMaps(plan) ==
    {PlannedResources(plan)[n]["values"] :
        n \in {i \in DOMAIN PlannedResources(plan) :
                  /\ ComputeLike(PlannedResources(plan)[i]["type"])
                  /\ Has(PlannedResources(plan)[i], "values")}}
    \cup {v \in {ResourceChanges(plan)[n]["change"]["after"] :
                    n \in {i \in DOMAIN ResourceChanges(plan) :
                              ComputeLike(ResourceChanges(plan)[i]["type"])}} :
             v # Null}

ThreeProviders == {"ovh", "aws", "hetzner"}

\* the matches find_equivalent_instance can return for a value map's instance field
InstanceMatches(values) ==
    Returned(FindEquivalentInstance(db, self.source_provider,
                                    values[CarriedInstanceField(values)],
                                    self.target_provider))

\* C21: for every source and target provider among ovh, aws and hetzner, when a
\* compute-like resource carries an instance field and find_equivalent_instance
\* returns a match, every translated value map holds a match under the target
\* provider's instance field, and every match is in one of them.
C21_InstanceFieldWritten ==
    (/\ Constructed /\ pc # "Init"
     /\ self.source_provider \in ThreeProviders
     /\ self.target_provider \in ThreeProviders) =>
        \A values \in ComputeLikeValueMaps(input) :
            (/\ CarriedInstanceField(values) # None
             /\ \A t \in InstanceMatches(values) : Truthy(t)) =>
                /\ \A m \in TranslatedMaps(values) :
                      /\ Has(m, InstanceFieldOf(self.target_provider))
                      /\ m[InstanceFieldOf(self.target_provider)] \in InstanceMatches(values)
                /\ \A t \in InstanceMatches(values) :
                      \E m \in TranslatedMaps(values) :
                          /\ Has(m, InstanceFieldOf(self.target_provider))
                          /\ m[InstanceFieldOf(self.target_provider)] = t

\* the location field a value map carries, in the order the code tests them
CarriedLocationField(values) ==
    IF Has(values, "region") THEN "region"
    ELSE IF Has(values, "location") THEN "location"
    ELSE IF Has(values, "availability_zone") THEN "availability_zone"
    ELSE None

LocationFields == {"region", "location", "availability_zone"}

\* the region code looked up for a value map that carries a location field
LookedUpRegion(values) ==
    LET given == values[CarriedLocationField(values)]
    IN  IF self.source_provider = "aws" /\ EndsWithZoneLetter(given)
        THEN DropLast(given)
        ELSE given

\* what find_nearest_region can return for it
NearestRegions(values) ==
    Returned(FindNearestRegion(db, self.source_provider, LookedUpRegion(values),
                               self.target_provider))

\* the map m holds region R the way the target provider takes it, and no
\* other location field
HoldsRegion(m, R) ==
    IF self.target_provider = "aws"
    THEN /\ DOMAIN m \cap LocationFields = {"availability_zone"}
         /\ EndsWithZoneLetter(m["availability_zone"])
         /\ m["availability_zone"] = WithZoneA(R)
         /\ DropLast(m["availability_zone"]) = R
    ELSE IF self.target_provider = "hetzner"
         THEN DOMAIN m \cap LocationFields = {"location"} /\ m["location"] = R
         ELSE DOMAIN m \cap LocationFields = {"region"} /\ m["region"] = R

\* C22: the region looked up is the value of the first present of region,
\* location, availability_zone, less a trailing zone letter when the source
\* is aws.  For every region R the lookup can return there is a translated
\* map holding R as the target takes it (availability_zone = R and 'a' for
\* aws, location = R for hetzner, region = R otherwise); every translated map
\* holds such an R or, where the lookup can return absent, no location field;
\* a map without location field gets none.
C22_LocationTranslated ==
    (Constructed /\ pc # "Init") =>
        \A values \in ComputeLikeValueMaps(input) :
            IF CarriedLocationField(values) = None
            THEN \A m \in TranslatedMaps(values) : DOMAIN m \cap LocationFields = {}
            ELSE /\ \A R \in NearestRegions(values) :
                       Truthy(R) => \E m \in TranslatedMaps(values) : HoldsRegion(m, R)
                 /\ \A m \in TranslatedMaps(values) :
                       \/ \E R \in NearestRegions(values) : Truthy(R) /\ HoldsRegion(m, R)
                       \/ /\ DOMAIN m \cap LocationFields = {}
                          /\ \E R \in NearestRegions(values) : ~Truthy(R)

\* translate has returned after an aws zone was stripped and looked up, a map
\* with both region and availability_zone went by its region, and a lookup
\* to aws wrote a synthesized zone
C22_Witness ==
    /\ pc = "Done"
    /\ db = SeedStore
    /\ \E values \in ComputeLikeValueMaps(input) :
          /\ CarriedLocationField(values) # None
          /\ \E R \in NearestRegions(values) : Truthy(R)
          /\ \/ /\ self.source_provider = "aws"
                /\ LookedUpRegion(values) # values[CarriedLocationField(values)]
             \/ /\ {"region", "availability_zone"} \subseteq DOMAIN values
                /\ self.target_provider = "aws"
    /\ \E n \in DOMAIN ResourceChanges(Output) :
          LET after == ResourceChanges(Output)[n]["change"]["after"]
          IN  after # Null /\ DOMAIN after \cap LocationFields # {}

ImageFieldNames == {"ami", "image", "image_name"}

\* the field the target provider takes an image in
ImageFieldOf(provider) ==
    IF provider = "aws" THEN "ami"
    ELSE IF provider = "hetzner" THEN "image"
    ELSE "image_name"

\* the store's rows for the image a value map names, under the source provider
SourceImages(values) ==
    {i \in db.images : /\ i.provider = self.source_provider
                       /\ i.image_name = values["image_name"]}

\* the target provider's images with the os_family and os_version of one of them
SameOsImages(values) ==
    {i \in db.images :
        /\ i.provider = self.target_provider
        /\ \E s \in SourceImages(values) :
              <<s.os_family, s.os_version>> = <<i.os_family, i.os_version>>}

\* C23: the pair (os_family, os_version) is an exact key.  For a compute-like
\* value map that carries image_name, a translated map has at most the
\* target's image field (ami for aws, image for hetzner, image_name
\* otherwise); what it holds there is the name of an image of the target
\* provider with exactly the os_family and os_version of the source image;
\* and when the source image is not in the store, or the target has no image
\* with that pair, no image field is written.
C23_ImageExactKey ==
    (Constructed /\ pc # "Init") =>
        \A values \in ComputeLikeValueMaps(input) :
            Has(values, "image_name") =>
                \A m \in TranslatedMaps(values) :
                    IF SameOsImages(values) = {}
                    THEN DOMAIN m \cap ImageFieldNames = {}
                    ELSE /\ DOMAIN m \cap ImageFieldNames = {ImageFieldOf(self.target_provider)}
                         /\ \E i \in SameOsImages(values) :
                               m[ImageFieldOf(self.target_provider)] = i.image_name

\* translate has returned on the seeded store for a map whose image the target
\* provider has, where it also has other versions of that family
C23_Witness ==
    /\ pc = "Done"
    /\ db = SeedStore
    /\ \E values \in ComputeLikeValueMaps(input) :
          /\ Has(values, "image_name")
          /\ SameOsImages(values) # {}
          /\ \E i \in db.images, s \in SourceImages(values) :
                /\ i.provider = self.target_provider
                /\ i.os_family = s.os_family
                /\ i.os_version # s.os_version

\* the keys the rules of translate_instance_values can write
WritableKeys ==
    {"instance_type", "flavor_name", "server_type", "availability_zone",
     "location", "region", "ami", "image", "image_name", "tags", "name",
     "key_name", "ssh_keys", "user_data", "associate_public_ip_address",
     "vpc_security_group_ids"}

\* C24: the value map of a rewritten compute-like entry is built fresh: in the
\* output its keys are among the keys the translation rules can write, so a
\* source field no rule covers is not in it.
C24_BuiltFresh ==
    (Constructed /\ pc # "Init") =>
        /\ \A n \in 1..at.resources :
              RewrittenComputeLike(PlannedResources(input)[n]["type"]) =>
                  DOMAIN PlannedResources(Output)[n]["values"] \subseteq WritableKeys
        /\ \A n \in 1..at.resource_changes :
              RewrittenComputeLike(ResourceChanges(input)[n]["type"]) =>
                  DOMAIN ResourceChanges(Output)[n]["change"]["after"] \subseteq WritableKeys

\* translate has returned a document in which a rewritten compute-like entry
\* has lost source fields no rule covers and kept a field a rule wrote
C24_Witness ==
    /\ pc = "Done"
    /\ \E n \in DOMAIN PlannedResources(input) :
          /\ RewrittenComputeLike(PlannedResources(input)[n]["type"])
          /\ DOMAIN PlannedResources(input)[n]["values"] \ WritableKeys # {}
          /\ DOMAIN PlannedResources(Output)[n]["values"] # {}
    /\ \E n \in DOMAIN ResourceChanges(input) :
          /\ RewrittenComputeLike(ResourceChanges(input)[n]["type"])
          /\ DOMAIN ResourceChanges(input)[n]["change"]["after"] \ WritableKeys # {}

\* a value map ends with the name and user_data of the value map it came from
PassedThrough(before, after) ==
    /\ Has(before, "name") =>
          IF self.target_provider = "aws"
          THEN /\ Has(after, "tags")
               /\ Has(after["tags"], "Name")
               /\ after["tags"]["Name"] = before["name"]
          ELSE Has(after, "name") /\ after["name"] = before["name"]
    /\ Has(before, "user_data") =>
          Has(after, "user_data") /\ after["user_data"] = before["user_data"]

\* C25: the passthrough fields survive the whole rewrite: for every source and
\* target provider and every rewritten compute-like entry, a name of the input
\* is in the output value map as tags.Name when the target is aws and as name
\* otherwise, and a user_data of the input is there unchanged.
C25_PassthroughSurvives ==
    (Constructed /\ pc # "Init") =>
        /\ \A n \in 1..at.resources :
              RewrittenComputeLike(PlannedResources(input)[n]["type"]) =>
                  PassedThrough(PlannedResources(input)[n]["values"],
                                PlannedResources(Output)[n]["values"])
        /\ \A n \in 1..at.resource_changes :
              RewrittenComputeLike(ResourceChanges(input)[n]["type"]) =>
                  PassedThrough(ResourceChanges(input)[n]["change"]["after"],
                                ResourceChanges(Output)[n]["change"]["after"])

\* an entry type that resolved and is not compute-like
RewrittenOther(type) == ~ComputeLike(type) /\ ~Unresolved(type)

\* the value map `before` less the keys of the source provider's blacklist:
\* no key outside the blacklist is lost or changed, none inside is kept
LessBlacklist(before, after) ==
    IF before = Null
    THEN after = Null
    ELSE /\ after # Null
         /\ DOMAIN after = DOMAIN before \ FieldsToRemove(self.source_provider)
         /\ \A k \in DOMAIN after : after[k] = before[k]
         /\ self.source_provider \in {"azure", "gcp", "unknown"} => after = before

\* C26: for a rewritten entry whose original type is not compute-like, the
\* output value map is the input value map less exactly the keys of the source
\* provider's blacklist (the ovh, aws or hetzner list); every other key keeps
\* its value, and with source azure, gcp or unknown nothing is removed.
C26_OnlyBlacklistRemoved ==
    (Constructed /\ pc # "Init") =>
        /\ \A n \in 1..at.resources :
              RewrittenOther(PlannedResources(input)[n]["type"]) =>
                  LessBlacklist(PlannedResources(input)[n]["values"],
                                PlannedResources(Output)[n]["values"])
        /\ \A n \in 1..at.resource_changes :
              RewrittenOther(ResourceChanges(input)[n]["type"]) =>
                  LessBlacklist(ResourceChanges(input)[n]["change"]["after"],
                                ResourceChanges(Output)[n]["change"]["after"])

\* translate has returned with a rewritten entry of another kind that lost
\* blacklisted keys and kept the rest
C26_Witness ==
    /\ pc = "Done"
    /\ \E n \in DOMAIN PlannedResources(input) :
          /\ RewrittenOther(PlannedResources(input)[n]["type"])
          /\ PlannedResources(Output)[n]["values"] # PlannedResources(input)[n]["values"]
          /\ DOMAIN PlannedResources(Output)[n]["values"] # {}

\* the key k of a dict, or None when it has none
Get(d, k) == IF Has(d, k) THEN d[k] ELSE None

\* how the rewrite can leave a planned_values entry: its type, provider_name
\* and value map, and the exception raised
PlannedOutcomes(resource) ==
    {[type |-> o.entry["type"], provider_name |-> Get(o.entry, "provider_name"),
      values |-> o.entry["values"], raised |-> o.raised] :
        o \in RewriteEntry(db, self.source_provider, self.target_provider,
                           resource, "resources")}

\* the same for a resource_changes entry, its value map being change.after
ChangeOutcomes(change) ==
    {[type |-> o.entry["type"], provider_name |-> Get(o.entry, "provider_name"),
      values |-> o.entry["change"]["after"], raised |-> o.raised] :
        o \in RewriteEntry(db, self.source_provider, self.target_provider,
                           change, "resource_changes")}

\* a planned entry and a change entry with the same type and provider_name,
\* change.after being the planned entry's value map
Alike(resource, change) ==
    /\ resource["type"] = change["type"]
    /\ Get(resource, "provider_name") = Get(change, "provider_name")
    /\ resource["values"] = change["change"]["after"]

NamesCompute(type) ==
    \/ Contains(type, "compute")
    \/ Contains(type, "instance")
    \/ Contains(type, "server")

\* the value map `after` is what value translation and cleanup make of
\* `before` if NamesCompute(type), and what cleanup alone makes of it if not
TranslatedIff(type, before, after) ==
    IF NamesCompute(type)
    THEN after \in {CleanupValues(self.source_provider, m) : m \in TranslatedMaps(before)}
    ELSE after = CleanupValues(self.source_provider, before)

\* the category the store files a native type under
CategoryOf(type) ==
    {r.resource_category : r \in {x \in ResourceTypeRows(db) : x.terraform_type = type}}

\* C28: value translation is applied to an entry exactly when its type
\* resolved and its original type holds "compute", "instance" or "server".
\* The test is on the original type, not the rewritten one, and not on the
\* store's category: a resolved type with such a substring has its value map
\* replaced by the fresh translated map, and any other resolved type keeps
\* its own map, less the blacklist.
C28_ComputeLikeByOriginalType ==
    (Constructed /\ pc # "Init") =>
        /\ \A n \in 1..at.resources :
              ~Unresolved(PlannedResources(input)[n]["type"]) =>
                  TranslatedIff(PlannedResources(input)[n]["type"],
                                PlannedResources(input)[n]["values"],
                                PlannedResources(Output)[n]["values"])
        /\ \A n \in 1..at.resource_changes :
              ~Unresolved(ResourceChanges(input)[n]["type"]) =>
                  TranslatedIff(ResourceChanges(input)[n]["type"],
                                ResourceChanges(input)[n]["change"]["after"],
                                ResourceChanges(Output)[n]["change"]["after"])

\* translate has returned a document in which a keypair type holding "compute"
\* got a fresh value map, and an entry of the store's compute category whose
\* original type holds none of the words was rewritten to a type that holds
\* one and kept its own keys
C28_Witness ==
    /\ pc = "Done"
    /\ \E n \in DOMAIN PlannedResources(input) :
          /\ PlannedResources(input)[n]["type"] = "openstack_compute_keypair_v2"
          /\ ~Unresolved("openstack_compute_keypair_v2")
          /\ ~Has(PlannedResources(Output)[n]["values"], "public_key")
    /\ \E n \in DOMAIN ResourceChanges(input) :
          /\ ~NamesCompute(ResourceChanges(input)[n]["type"])
          /\ CategoryOf(ResourceChanges(input)[n]["type"]) = {"compute"}
          /\ NamesCompute(ResourceChanges(Output)[n]["type"])
          /\ ResourceChanges(Output)[n]["change"]["after"] # Null
          /\ Has(ResourceChanges(Output)[n]["change"]["after"], "public_key")

\* the registry address of the provider block update_provider_config writes
WrittenFullName(target) ==
    LET block == TargetProviderConfig(target)
    IN  block[CHOOSE k \in DOMAIN block : TRUE]["full_name"]

\* C29: after translate to aws, ovh or hetzner of a document whose source is
\* ovh, aws or hetzner, the provider_name of every entry whose type was
\* rewritten is the registry address of the provider block that
\* update_provider_config writes for the target: the entries and the provider
\* configuration name the same provider.
C29_ProviderNameMatchesConfig ==
    (/\ pc = "Done"
     /\ self.source_provider \in ThreeProviders
     /\ self.target_provider \in ThreeProviders) =>
        /\ \A n \in DOMAIN PlannedResources(input) :
              ~Unresolved(PlannedResources(input)[n]["type"]) =>
                  PlannedResources(Output)[n]["provider_name"]
                      = WrittenFullName(self.target_provider)
        /\ \A n \in DOMAIN ResourceChanges(input) :
              ~Unresolved(ResourceChanges(input)[n]["type"]) =>
                  ResourceChanges(Output)[n]["provider_name"]
                      = WrittenFullName(self.target_provider)

\* the resource_changes entry at which translate raised, if it raised in the
\* second loop
RaisedAtChange ==
    IF pc = "Raised" /\ at.resources = Len(PlannedResources(input))
    THEN {at.resource_changes + 1}
    ELSE {}

\* C30: a resource_changes entry whose change.after is null, a planned
\* deletion, does not abort the run, also when its type is compute-like and
\* resolves: translate never raises at such an entry, and once it is past the
\* entry the entry's type is the one map_resource_type gave and change.after
\* is still null.
C30_DeletionDoesNotAbort ==
    Constructed =>
        /\ \A n \in RaisedAtChange :
              ResourceChanges(input)[n]["change"]["after"] # Null
        /\ \A n \in 1..at.resource_changes :
              ResourceChanges(input)[n]["change"]["after"] = Null =>
                  /\ ResourceChanges(Output)[n]["change"]["after"] = Null
                  /\ ResourceChanges(Output)[n]["type"] \in
                         {IF Truthy(t) THEN t ELSE ResourceChanges(input)[n]["type"] :
                             t \in Returned(MapResourceType(
                                      db, ResourceChanges(input)[n]["type"],
                                      self.target_provider))}

====
